---- MODULE Spec2Model ----
(***************************************************************************)
(* NanoWOL: the signed-command protocol (crypto.py), the Wake-on-LAN       *)
(* packet (wol.py) and the agent server (agent.py) that gates Wake-on-LAN  *)
(* and shutdown behind the protocol.                                       *)
(*                                                                         *)
(* The specifications share the variables below:                           *)
(*   SpecCrypto  sign_message / verify_signature on drawn inputs           *)
(*   SpecVerify  one call of verify_signed_payload on drawn inputs         *)
(*   SpecCanon   the bytes signed and the bytes verified, by field order   *)
(*   SpecDelay   the shutdown command and response, by shutdown_delay      *)
(*   SpecWol     validate_mac, normalize_mac, send_wol_packet (wol.py)     *)
(*   SpecRequest the agent on one request with any body                    *)
(*   Spec        the agent: concurrent /wol and /shutdown handlers on one  *)
(*               shared used_nonces set                                    *)
(***************************************************************************)
EXTENDS Integers, Sequences, FiniteSets, TLC

(***************************************************************************)
(* Bounds of the model.                                                    *)
(***************************************************************************)
\* The clock takes the values 0..MaxNow.
MaxNow == 1
\* Number of requests the agent receives in one behaviour.
NumReq == 2

(***************************************************************************)
(* Program constants.                                                      *)
(***************************************************************************)
\* "if timestamp > current_time + 5:  # Allow 5s clock skew"
CLOCK_SKEW == 5
\* max_age_seconds=60 at both call sites of the agent, and the default.
AGENT_MAX_AGE == 60

(***************************************************************************)
(* Python / JSON values.  A value is a record [kind, val]; the kind is     *)
(* compared first, so values of different Python types are never equal.    *)
(***************************************************************************)
PyNone == [kind |-> "none", val |-> 0]
JStr(s) == [kind |-> "str", val |-> s]
JInt(n) == [kind |-> "int", val |-> n]
JBool(b) == [kind |-> "bool", val |-> b]
JDict(d) == [kind |-> "dict", val |-> d]
\* A JSON array of the items given.
JArray(items) == [kind |-> "list", val |-> items]
\* []: the one unhashable value a payload of the model carries.
JList == JArray(<<>>)
EmptyDict == <<>>

\* Python truth value: "not payload", "not signature", "if warning".
Truthy(v) ==
  CASE v.kind = "none" -> FALSE
    [] v.kind = "str" -> v.val # ""
    [] v.kind = "int" -> v.val # 0
    [] v.kind = "bool" -> v.val
    [] v.kind = "dict" -> DOMAIN v.val # {}
    [] v.kind = "list" -> v.val # <<>>
    [] OTHER -> TRUE

\* dict.get(key, default)
DictGet(d, key, default) == IF key \in DOMAIN d THEN d[key] ELSE default

(***************************************************************************)
(* Keys and the RSA primitive of the cryptography library.  PKCS#1 v1.5    *)
(* over SHA-256 is deterministic: for a key and a message there is exactly *)
(* one byte string that verifies, the one sign() returns.  The byte string *)
(* is kept symbolic as [signer, signed].                                   *)
(***************************************************************************)
KeyPairs == {"controller", "intruder"}
PrivateKey(k) == [pair |-> k, half |-> "private"]
PublicKey(k) == [pair |-> k, half |-> "public"]

\* private_key.sign(message, padding.PKCS1v15(), hashes.SHA256())
RsaSign(message, private_key) == [signer |-> private_key.pair, signed |-> message]

\* public_key.verify(signature, message, ...): TRUE when it does not raise.
RsaVerify(signature, message, public_key) ==
  /\ signature.signer = public_key.pair
  /\ signature.signed = message

\* b"": the bytes of an empty hex string; no key verifies them.
EmptyBytes == [signer |-> "", signed |-> <<>>]

(***************************************************************************)
(* Hex strings.  A string of hex digits is [bytes, spelling]: the bytes    *)
(* its digit pairs denote and how they are written.  bytes.hex() writes    *)
(* lower case without spaces; bytes.fromhex() also reads upper case and    *)
(* skips ASCII whitespace, and raises ValueError on an odd number of       *)
(* digits or on any other character.                                       *)
(***************************************************************************)
HexStr(b, spelling) == [kind |-> "hex", val |-> [bytes |-> b, spelling |-> spelling]]
DecodableSpellings == {"lower", "upper", "spaced"}
HexSpellings == DecodableSpellings \cup {"truncated"}

\* A hex writer that does not pad a byte below 0x10 to two digits.
BytesHexUnpadded(b) == HexStr(b, "truncated")

\* bytes.hex()
BytesHex(b) == HexStr(b, "lower")

\* bytes.fromhex(s): [ok, bytes]; ok = FALSE stands for ValueError / TypeError.
BytesFromHex(s) ==
  CASE s.kind = "hex" /\ s.val.spelling \in DecodableSpellings ->
         [ok |-> TRUE, bytes |-> s.val.bytes]
    [] s.kind = "str" /\ s.val = "" -> [ok |-> TRUE, bytes |-> EmptyBytes]
    [] OTHER -> [ok |-> FALSE, bytes |-> EmptyBytes]

(***************************************************************************)
(* crypto.py: sign_message, verify_signature                               *)
(***************************************************************************)
sign_message(message, private_key) == BytesHex(RsaSign(message, private_key))

\* The exception the body of the try block raises, "none" when it runs to
\* "return True": ValueError / TypeError from bytes.fromhex, InvalidSignature
\* from public_key.verify.
TryVerify(message, signature_hex, public_key) ==
  LET decoded == BytesFromHex(signature_hex)
  IN  IF ~decoded.ok
        THEN (IF signature_hex.kind \in {"hex", "str"} THEN "ValueError" ELSE "TypeError")
      ELSE IF ~RsaVerify(decoded.bytes, message, public_key) THEN "InvalidSignature"
      ELSE "none"

\* An except clause that names the library's InvalidSignature only.
ExceptInvalidSignature(exc) == exc = "InvalidSignature"

\* "except Exception:" catches each of them.
ExceptException(exc) == exc \in {"ValueError", "TypeError", "InvalidSignature"}

\* One call: [raised, value].  raised is the exception that leaves the
\* function, "none" when it returns value.
VerifySignatureCall(message, signature_hex, public_key) ==
  LET exc == TryVerify(message, signature_hex, public_key)
  IN  IF exc = "none" THEN [raised |-> "none", value |-> TRUE]
      ELSE IF ExceptException(exc) THEN [raised |-> "none", value |-> FALSE]
      ELSE [raised |-> exc, value |-> FALSE]

\* try: fromhex, verify, return True / except Exception: return False
verify_signature(message, signature_hex, public_key) ==
  VerifySignatureCall(message, signature_hex, public_key).value

(***************************************************************************)
(* json.dumps(payload, sort_keys=True).encode(): the text as a sequence of *)
(* tokens.  The default separators of json.dumps are ", " and ": ".        *)
(***************************************************************************)
\* Every key a payload of the model can carry, in sorted order.
KeyOrder == <<"action", "extra", "nonce", "timestamp">>
PayloadKeys == {KeyOrder[i] : i \in DOMAIN KeyOrder}
\* The separator of separators=(",", ":"), which the code does not pass.
COMPACT_ITEM_SEPARATOR == ","
ITEM_SEPARATOR == ", "
KEY_SEPARATOR == ": "

Tok(kind, text) == [kind |-> kind, text |-> text]

RECURSIVE JsonItems(_, _)
JsonItems(d, keys) ==
  IF keys = <<>> THEN <<>>
  ELSE LET k == Head(keys)
           item == <<Tok("key", k), Tok("punct", KEY_SEPARATOR),
                     Tok(d[k].kind, d[k].val)>>
       IN  IF Len(keys) = 1 THEN item
           ELSE item \o <<Tok("punct", ITEM_SEPARATOR)>> \o JsonItems(d, Tail(keys))

SortedKeys(d) == SelectSeq(KeyOrder, LAMBDA k : k \in DOMAIN d)

JsonDumps(d) ==
  <<Tok("punct", "{")>> \o JsonItems(d, SortedKeys(d)) \o <<Tok("punct", "}")>>

\* A dict keeps its keys in insertion order; json.dumps writes them in that
\* order unless sort_keys is set, and then in the order of sorted().
KeyRank(k) == CHOOSE i \in DOMAIN KeyOrder : KeyOrder[i] = k

RECURSIVE InsertSorted(_, _)
InsertSorted(k, keys) ==
  IF keys = <<>> THEN <<k>>
  ELSE IF KeyRank(k) <= KeyRank(Head(keys)) THEN <<k>> \o keys
  ELSE <<Head(keys)>> \o InsertSorted(k, Tail(keys))

\* A serializer that leaves the keys in insertion order.
KeepInsertionOrder(keys) == keys

\* sorted(keys)
RECURSIVE SortKeys(_)
SortKeys(keys) ==
  IF keys = <<>> THEN <<>>
  ELSE InsertSorted(Head(keys), SortKeys(Tail(keys)))

\* json.dumps(d, sort_keys=sort_keys) of the dict d whose keys were inserted
\* in the order "order".
json_dumps(d, order, sort_keys) ==
  <<Tok("punct", "{")>>
  \o JsonItems(d, IF sort_keys THEN SortKeys(order) ELSE order)
  \o <<Tok("punct", "}")>>

(***************************************************************************)
(* crypto.py: create_signed_payload.  The clock reading and the random     *)
(* nonce are inputs.                                                       *)
(***************************************************************************)
create_signed_payload(action, private_key, timestamp, nonce) ==
  LET payload == [action |-> JStr(action), timestamp |-> JInt(timestamp),
                  nonce |-> JStr(nonce)]
  IN  [payload |-> JDict(payload),
       signature |-> sign_message(JsonDumps(payload), private_key)]

(***************************************************************************)
(* crypto.py: verify_signed_payload.  used_nonces is PyNone or PySet(S);   *)
(* current_time is the one reading int(time.time()) of the call.  The      *)
(* result is [valid, error, used_nonces]: the pair returned and the set    *)
(* as the call leaves it.                                                  *)
(***************************************************************************)
PySet(S) == [kind |-> "set", val |-> S]
NoError == "None"
MissingAuth == "Missing payload or signature"
ActionMismatch(expected_action) == "Invalid action: expected " \o expected_action
Expired(max_age_seconds) ==
  "Payload expired (max age: " \o ToString(max_age_seconds) \o "s)"
FutureTimestamp == "Payload timestamp in future"
ReplayDetected == "Nonce already used (replay attack)"
InvalidSignature == "Invalid signature"
\* str(e) of the exceptions the except clause catches
AttributeErrorGet == "'str' object has no attribute 'get'"
TypeErrorMinus == "unsupported operand type(s) for -: 'int' and 'str'"
TypeErrorUnhashable == "unhashable type: 'list'"
\* x.get(...) on a value that is no dict; the kinds are the Python type names.
NoAttributeGet(v) == "'" \o v.kind \o "' object has no attribute 'get'"
\* "payload" in x on a value that is no container.
NotIterable(v) == "argument of type '" \o v.kind \o "' is not iterable"

\* The class of the exception behind a reason, "none" for the reasons the
\* code returns itself.
ExceptionOf(error) ==
  IF error \in {NoAttributeGet([kind |-> k]) : k \in {"str", "int", "bool", "list"}}
    THEN "AttributeError"
  ELSE IF error \in {TypeErrorMinus, TypeErrorUnhashable} THEN "TypeError"
  ELSE "none"

\* An except clause for the errors of a conversion only.
ExceptValueError(exc) == exc = "ValueError"

\* Line 240, "except Exception as e": return False, str(e)
ExceptExceptionAsE(exc) == exc \in {"AttributeError", "TypeError", "ValueError"}

PayloadOf(data) == DictGet(data, "payload", JDict(EmptyDict))
SignatureOf(data) == DictGet(data, "signature", JStr(""))
NonceOf(data) == DictGet(PayloadOf(data).val, "nonce", JStr(""))

\* The comparison with the boundary excluded.
IsExpiredExclusive(current_time, timestamp, max_age_seconds) ==
  current_time - timestamp >= max_age_seconds

\* "if current_time - timestamp > max_age_seconds"
IsExpired(current_time, timestamp, max_age_seconds) ==
  current_time - timestamp > max_age_seconds

\* The comparison with the boundary excluded.
IsFutureExclusive(timestamp, current_time) == timestamp >= current_time + CLOCK_SKEW

\* "if timestamp > current_time + 5"
IsFuture(timestamp, current_time) == timestamp > current_time + CLOCK_SKEW

\* The same checks with the two timestamp checks moved before the action check.
ChecksTimestampFirst(data, expected_action, max_age_seconds, current_time) ==
  LET payload == PayloadOf(data)
      signature == SignatureOf(data)
      Fail(e) == [pass |-> FALSE, error |-> e]
  IN  IF ~Truthy(payload) \/ ~Truthy(signature) THEN Fail(MissingAuth)
      ELSE IF payload.kind # "dict" THEN Fail(AttributeErrorGet)
      ELSE LET action == DictGet(payload.val, "action", PyNone)
               timestamp == DictGet(payload.val, "timestamp", JInt(0))
           IN  IF timestamp.kind # "int" THEN Fail(TypeErrorMinus)
               ELSE IF IsExpired(current_time, timestamp.val, max_age_seconds)
                 THEN Fail(Expired(max_age_seconds))
               ELSE IF IsFuture(timestamp.val, current_time)
                 THEN Fail(FutureTimestamp)
               ELSE IF action # JStr(expected_action)
                 THEN Fail(ActionMismatch(expected_action))
               ELSE [pass |-> TRUE, error |-> NoError]

\* Lines 204-225: presence, action, expiry, future skew.  [pass, error].
ChecksBeforeReplay(data, expected_action, max_age_seconds, current_time) ==
  LET payload == PayloadOf(data)
      signature == SignatureOf(data)
      Fail(e) == [pass |-> FALSE, error |-> e]
  IN  IF ~Truthy(payload) \/ ~Truthy(signature) THEN Fail(MissingAuth)
      ELSE IF payload.kind # "dict" THEN Fail(AttributeErrorGet)
      ELSE LET action == DictGet(payload.val, "action", PyNone)
               timestamp == DictGet(payload.val, "timestamp", JInt(0))
           IN  IF action # JStr(expected_action)
                 THEN Fail(ActionMismatch(expected_action))
               ELSE IF timestamp.kind # "int" THEN Fail(TypeErrorMinus)
               ELSE IF IsExpired(current_time, timestamp.val, max_age_seconds)
                 THEN Fail(Expired(max_age_seconds))
               ELSE IF IsFuture(timestamp.val, current_time)
                 THEN Fail(FutureTimestamp)
               ELSE [pass |-> TRUE, error |-> NoError]

\* hash(nonce) of "nonce in used_nonces": a list raises TypeError.
Hashable(v) == v.kind \notin {"list", "dict"}

\* "if nonce in used_nonces"
NonceSeen(nonce, nonces) == nonce \in nonces

\* A set that forgets: the nonce is not recorded.
NonceAddNothing(nonce, nonces) == nonces

\* A cache of one entry: adding a nonce evicts the others.
NonceAddEvicting(nonce, nonces) == {nonce}

\* "used_nonces.add(nonce)"
NonceAdd(nonce, nonces) == nonces \cup {nonce}

\* A check that only decodes the signature and never verifies it.
SignatureCheckDecodeOnly(data, public_key) == BytesFromHex(SignatureOf(data)).ok

\* A check that signs over the three known fields instead of the whole payload.
SignatureCheckKnownFields(data, public_key) ==
  LET p == PayloadOf(data).val
      known == [k \in DOMAIN p \cap {"action", "timestamp", "nonce"} |-> p[k]]
  IN  verify_signature(JsonDumps(known), SignatureOf(data), public_key)

\* Lines 233-236: the signature over the received payload, keys sorted.
SignatureCheck(data, public_key) ==
  verify_signature(JsonDumps(PayloadOf(data).val), SignatureOf(data), public_key)

Outcome(valid, error, used_nonces) ==
  [valid |-> valid, error |-> error, used_nonces |-> used_nonces]

\* Lines 228-230: the replay step.  [pass, error]; the step is skipped when
\* used_nonces is None.
ReplayCheck(data, used_nonces) ==
  LET nonce == NonceOf(data)
      tracked == used_nonces.kind # "none"
  IN  IF tracked /\ ~Hashable(nonce)
        THEN [pass |-> FALSE, error |-> TypeErrorUnhashable]
      ELSE IF tracked /\ NonceSeen(nonce, used_nonces.val)
        THEN [pass |-> FALSE, error |-> ReplayDetected]
      ELSE [pass |-> TRUE, error |-> NoError]

\* The other order: the nonce is recorded only once the signature has verified.
VerifyThenRecord(data, public_key, used_nonces) ==
  IF ~SignatureCheck(data, public_key)
    THEN Outcome(FALSE, InvalidSignature, used_nonces)
  ELSE Outcome(TRUE, NoError,
         IF used_nonces.kind # "none"
           THEN PySet(NonceAdd(NonceOf(data), used_nonces.val))
         ELSE used_nonces)

\* A verifier that tells a signature it cannot decode from one that does not
\* verify.
RecordThenVerifyTelling(data, public_key, used_nonces) ==
  LET recorded == IF used_nonces.kind # "none"
                    THEN PySet(NonceAdd(NonceOf(data), used_nonces.val))
                  ELSE used_nonces
  IN  IF ~BytesFromHex(SignatureOf(data)).ok
        THEN Outcome(FALSE, "Malformed signature", recorded)
      ELSE IF ~SignatureCheck(data, public_key)
        THEN Outcome(FALSE, InvalidSignature, recorded)
      ELSE Outcome(TRUE, NoError, recorded)

\* Lines 231-238: the nonce is recorded, then the signature is verified.
RecordThenVerify(data, public_key, used_nonces) ==
  LET recorded == IF used_nonces.kind # "none"
                    THEN PySet(NonceAdd(NonceOf(data), used_nonces.val))
                  ELSE used_nonces
  IN  IF ~SignatureCheck(data, public_key)
        THEN Outcome(FALSE, InvalidSignature, recorded)
      ELSE Outcome(TRUE, NoError, recorded)

\* "used_nonces: set = set()": a default that is one set for all calls.
VerifyWithDefaultSet(data, public_key, expected_action, max_age_seconds, used_nonces, current_time) ==
  LET used == IF used_nonces.kind = "none" THEN PySet({}) ELSE used_nonces
      pre == ChecksBeforeReplay(data, expected_action, max_age_seconds, current_time)
      replay == ReplayCheck(data, used)
  IN  IF ~pre.pass THEN Outcome(FALSE, pre.error, used)
      ELSE IF ~replay.pass THEN Outcome(FALSE, replay.error, used)
      ELSE RecordThenVerify(data, public_key, used)

\* The nonce step moved before the timestamp checks: an expired payload has
\* its nonce recorded.
VerifyRecordingBeforeExpiry(data, public_key, expected_action, max_age_seconds, used_nonces, current_time) ==
  LET pre == ChecksBeforeReplay(data, expected_action, max_age_seconds, current_time)
      replay == ReplayCheck(data, used_nonces)
  IN  IF ~pre.pass
        THEN Outcome(FALSE, pre.error,
               IF pre.error = Expired(max_age_seconds) /\ used_nonces.kind # "none"
                  /\ Hashable(NonceOf(data))
                 THEN PySet(NonceAdd(NonceOf(data), used_nonces.val))
               ELSE used_nonces)
      ELSE IF ~replay.pass THEN Outcome(FALSE, replay.error, used_nonces)
      ELSE RecordThenVerify(data, public_key, used_nonces)

\* Lines 203-242.
verify_signed_payload(data, public_key, expected_action, max_age_seconds, used_nonces, current_time) ==
  LET pre == ChecksBeforeReplay(data, expected_action, max_age_seconds, current_time)
      replay == ReplayCheck(data, used_nonces)
  IN  IF ~pre.pass THEN Outcome(FALSE, pre.error, used_nonces)
      ELSE IF ~replay.pass THEN Outcome(FALSE, replay.error, used_nonces)
      ELSE RecordThenVerify(data, public_key, used_nonces)

(***************************************************************************)
(* State.                                                                  *)
(***************************************************************************)
VARIABLES
  crypt,        \* SpecCrypto: the message, keys and strings of one sign / verify
  call,         \* one call, arguments and result; Spec: the last send_wol_packet
  now,          \* the clock, int(time.time())
  host,         \* the agent's machine: platform and privileges
  used_nonces,  \* the agent's set of nonces, shared by all handlers
  pc,           \* per request: where its handler stands
  req,          \* per request: endpoint and JSON body
  local,        \* per request: the handler's local variables
  verdict,      \* per request: what verify_signed_payload returned
  reply,        \* per request: the HTTP response
  effects,      \* per request: the privileged effects it caused, in order
  accepted,     \* nonces of the calls that returned (True, None)
  burned,       \* nonces of the calls that returned "Invalid signature"
  child         \* per request: the process its handler spawned

agentVars == <<host, used_nonces, pc, req, local, verdict, reply, effects,
               accepted, burned, child>>
vars == <<crypt, call, now, agentVars>>

Req == 1..NumReq
NoBody == [endpoint |-> "none", body |-> [kind |-> "none"]]
NoLocal == [current_time |-> 0, use_sudo |-> FALSE, warning |-> PyNone,
            seen_accepted |-> {}, seen_burned |-> {}]
NoVerdict == [called |-> FALSE, expected_action |-> "none", valid |-> FALSE,
              error |-> NoError]
NoReply == [status |-> 0, body |-> EmptyDict]
NoCommand == [argv0 |-> "", delay |-> 0, sudo |-> FALSE, text |-> ""]
NoChild == [state |-> "none", command |-> NoCommand]

\* shutdown_delay: int = 5
DEFAULT_SHUTDOWN_DELAY == 5
\* The machine of the specifications that never start the agent.
NoHost == [platform |-> "linux", root |-> TRUE, sudo |-> "missing"]

\* The agent before any request; the other specifications leave it there.
AgentIdle ==
  /\ used_nonces = {}
  /\ pc = [r \in Req |-> "idle"]
  /\ req = [r \in Req |-> NoBody]
  /\ local = [r \in Req |-> NoLocal]
  /\ verdict = [r \in Req |-> NoVerdict]
  /\ reply = [r \in Req |-> NoReply]
  /\ effects = [r \in Req |-> <<>>]
  /\ accepted = {}
  /\ burned = {}
  /\ child = [r \in Req |-> NoChild]

NoCrypt == [stage |-> "none"]
NoCall == [stage |-> "none"]

(***************************************************************************)
(* Inputs.                                                                 *)
(***************************************************************************)
Actions == {"wol", "shutdown"}
Nonces == {"n1", "n2"}
\* The key the agent loads from public_key_path.
AgentKey == PublicKey("controller")
MaxAges == {0, 2, AGENT_MAX_AGE}
\* Timestamps around both boundaries of the freshness window.
Offsets(max_age_seconds) ==
  {0 - (max_age_seconds + 1), 0 - max_age_seconds, 0, CLOCK_SKEW, CLOCK_SKEW + 1}
\* used_nonces of a call: the default None, or a set.
NonceCaches == {PyNone} \cup {PySet(S) : S \in SUBSET {JStr("n1")}}

Absent == [kind |-> "absent", val |-> 0]
Without(d, key) == [k \in DOMAIN d \ {key} |-> d[k]]
With(d, key, v) == [k \in DOMAIN d \cup {key} |-> IF k = key THEN v ELSE d[k]]

\* The request body: a dict holding the keys that are present.
MkData(payload, signature) ==
  LET keys == (IF payload = Absent THEN {} ELSE {"payload"})
              \cup (IF signature = Absent THEN {} ELSE {"signature"})
  IN  [k \in keys |-> IF k = "payload" THEN payload ELSE signature]

\* What can arrive in place of a signed payload p: p itself, p with one field
\* changed, removed or added, or something that is no payload at all.
DeliveredPayloads(p, timestamps) ==
  {JDict(p)}
  \cup {JDict([p EXCEPT !.action = JStr(a)]) : a \in Actions}
  \cup {JDict([p EXCEPT !.timestamp = JInt(t)]) : t \in timestamps}
  \cup {JDict([p EXCEPT !.timestamp = JStr("soon")])}
  \cup {JDict([p EXCEPT !.nonce = JStr(n)]) : n \in Nonces}
  \cup {JDict([p EXCEPT !.nonce = JList])}
  \cup {JDict(Without(p, k)) : k \in DOMAIN p}
  \cup {JDict(With(p, "extra", JStr("x")))}
  \cup {JDict(EmptyDict), PyNone, JStr("payload"), Absent}

\* What can arrive in place of the signature string s.
DeliveredSignatures(s) ==
  {s}
  \cup {HexStr(s.val.bytes, sp) : sp \in HexSpellings}
  \cup {JStr("invalid_hex"), JStr(""), JInt(7), Absent}

(***************************************************************************)
(* SpecVerify: one call of verify_signed_payload.  The controller (or the  *)
(* intruder, with its own key) signs a payload; what is delivered to the   *)
(* verifier is that payload and signature, possibly altered.               *)
(***************************************************************************)
VerifyInit ==
  /\ crypt = NoCrypt
  /\ AgentIdle /\ host = NoHost
  /\ now \in 0..MaxNow
  /\ \E max_age \in MaxAges, expected \in Actions, used \in NonceCaches,
        a \in Actions, k \in KeyPairs, n \in Nonces :
       \E off \in Offsets(max_age) :
         LET original == create_signed_payload(a, PrivateKey(k), now + off, n)
             stamps == {now + o : o \in Offsets(max_age)}
         IN  \E p \in DeliveredPayloads(original.payload.val, stamps),
                s \in DeliveredSignatures(original.signature) :
               call = [stage |-> "drawn",
                       original |-> original,
                       signer |-> k,
                       data |-> MkData(p, s),
                       public_key |-> AgentKey,
                       expected_action |-> expected,
                       max_age_seconds |-> max_age,
                       used_nonces |-> used,
                       current_time |-> now,
                       result |-> Outcome(FALSE, NoError, used)]

VerifyCall ==
  /\ call.stage = "drawn"
  /\ call' = [call EXCEPT
       !.stage = "returned",
       !.result = verify_signed_payload(call.data, call.public_key,
                    call.expected_action, call.max_age_seconds,
                    call.used_nonces, call.current_time)]
  /\ UNCHANGED <<crypt, now, agentVars>>


SpecVerify == VerifyInit /\ [][VerifyCall]_vars


(***************************************************************************)
(* Properties of verify_signed_payload (SpecVerify).  The six checks are   *)
(* stated here on the arguments of the call, independently of the          *)
(* operators above.                                                        *)
(***************************************************************************)
Returned == call.stage = "returned"
ArgPayload == IF "payload" \in DOMAIN call.data THEN call.data["payload"] ELSE Absent
ArgSignature == IF "signature" \in DOMAIN call.data THEN call.data["signature"] ELSE Absent
ArgIsDict == ArgPayload.kind = "dict"
ArgField(key) ==
  IF ArgIsDict /\ key \in DOMAIN ArgPayload.val THEN ArgPayload.val[key] ELSE Absent
\* An absent timestamp reads as 0 and an absent nonce as "".
ArgTimestamp == IF ArgField("timestamp") = Absent THEN 0 ELSE ArgField("timestamp").val
ArgNonce == IF ArgField("nonce") = Absent THEN JStr("") ELSE ArgField("nonce")

PresencePasses ==
  /\ ArgIsDict /\ DOMAIN ArgPayload.val # {}
  /\ ArgSignature.kind \in {"hex", "int"}
     \/ (ArgSignature.kind = "str" /\ ArgSignature.val # "")
ActionPasses == ArgField("action") = JStr(call.expected_action)
ExpiryPasses == call.current_time - ArgTimestamp <= call.max_age_seconds
SkewPasses == ArgTimestamp <= call.current_time + 5
ReplayPasses ==
  call.used_nonces.kind = "set" => ArgNonce \notin call.used_nonces.val
SignaturePasses ==
  /\ ArgIsDict
  /\ ArgSignature.kind = "hex"
  /\ ArgSignature.val.spelling \in {"lower", "upper", "spaced"}
  /\ ArgSignature.val.bytes.signer = call.public_key.pair
  /\ ArgSignature.val.bytes.signed = JsonDumps(ArgPayload.val)

\* Every check has a truth value: the payload is a dict (or missing), its
\* timestamp is an integer and its nonce is hashable.
WellTyped ==
  /\ ArgPayload.kind \in {"dict", "none", "absent"}
  /\ ArgField("timestamp") = Absent \/ ArgField("timestamp").kind = "int"
  /\ ArgNonce.kind = "str"

FailingChecks ==
  {i \in 1..6 :
     \/ i = 1 /\ ~PresencePasses
     \/ i = 2 /\ ~ActionPasses
     \/ i = 3 /\ ~ExpiryPasses
     \/ i = 4 /\ ~SkewPasses
     \/ i = 5 /\ ~ReplayPasses
     \/ i = 6 /\ ~SignaturePasses}
FirstFailing == CHOOSE i \in FailingChecks : \A j \in FailingChecks : i <= j
ReasonOf(i) ==
  CASE i = 1 -> "Missing payload or signature"
    [] i = 2 -> "Invalid action: expected " \o call.expected_action
    [] i = 3 -> "Payload expired (max age: " \o ToString(call.max_age_seconds) \o "s)"
    [] i = 4 -> "Payload timestamp in future"
    [] i = 5 -> "Nonce already used (replay attack)"
    [] OTHER -> "Invalid signature"

\* C4: the reason returned is that of the earliest failing check in the order
\* presence, action, expiry, future skew, replay, signature.
CheckOrderDecidesReason ==
  (Returned /\ WellTyped /\ FailingChecks # {}) =>
    /\ ~call.result.valid
    /\ call.result.error = ReasonOf(FirstFailing)

\* A replayed payload that has also expired is reported as expired.
WitnessReplayedAndExpired ==
  /\ Returned /\ WellTyped
  /\ {3, 5} \subseteq FailingChecks /\ FirstFailing = 3
  /\ call.result.error = "Payload expired (max age: 60s)"

\* C5: valid=True only if all six checks pass.
ValidOnlyIfAllSixPass ==
  (Returned /\ call.result.valid) =>
    /\ PresencePasses /\ ActionPasses /\ ExpiryPasses
    /\ SkewPasses /\ ReplayPasses /\ SignaturePasses

WitnessAccepted ==
  /\ Returned /\ call.result.valid /\ call.result.error = "None"
  /\ call.used_nonces.kind = "set"

OthersPassExceptExpiry ==
  PresencePasses /\ ActionPasses /\ SkewPasses /\ ReplayPasses /\ SignaturePasses
\* C7: with the other checks passing, timestamp = now - (max_age + 1) is
\* rejected as expired and timestamp = now - max_age is accepted.
ExpiryBoundaryInclusive ==
  (Returned /\ WellTyped /\ OthersPassExceptExpiry) =>
    /\ ArgTimestamp = call.current_time - (call.max_age_seconds + 1) =>
         (~call.result.valid /\ call.result.error = ReasonOf(3))
    /\ ArgTimestamp = call.current_time - call.max_age_seconds =>
         call.result.valid

WitnessOldestAccepted ==
  /\ Returned /\ WellTyped /\ OthersPassExceptExpiry
  /\ call.max_age_seconds = 60
  /\ ArgTimestamp = call.current_time - 60
  /\ call.result.valid

OthersPassExceptSkew ==
  PresencePasses /\ ActionPasses /\ ExpiryPasses /\ ReplayPasses /\ SignaturePasses
\* C8: with the other checks passing, timestamp = now + 6 is rejected as a
\* future timestamp and timestamp = now + 5 is accepted, whatever max_age is.
SkewBoundaryFiveSeconds ==
  \A max_age \in MaxAges :
    (Returned /\ WellTyped /\ OthersPassExceptSkew
       /\ call.max_age_seconds = max_age) =>
      /\ ArgTimestamp = call.current_time + 6 =>
           (~call.result.valid /\ call.result.error = "Payload timestamp in future")
      /\ ArgTimestamp = call.current_time + 5 => call.result.valid

WitnessNewestAccepted ==
  /\ Returned /\ WellTyped /\ OthersPassExceptSkew
  /\ call.max_age_seconds = 0
  /\ ArgTimestamp = call.current_time + 5
  /\ call.result.valid


SignatureChanged == ArgSignature # call.original.signature
FieldChanged ==
  /\ ArgIsDict
  /\ DOMAIN ArgPayload.val = DOMAIN call.original.payload.val
  /\ ArgPayload.val # call.original.payload.val
FieldAdded ==
  /\ ArgIsDict
  /\ DOMAIN ArgPayload.val # DOMAIN call.original.payload.val
  /\ \A k \in DOMAIN call.original.payload.val :
       k \in DOMAIN ArgPayload.val /\ ArgPayload.val[k] = call.original.payload.val[k]
\* The original statement of C10: any change of the signature string, any
\* changed field value and any added field makes verification fail.
AnyTamperRejected ==
  (Returned /\ (SignatureChanged \/ FieldChanged \/ FieldAdded)) => ~call.result.valid

SignatureBytesChanged ==
  ~ /\ ArgSignature.kind = "hex"
    /\ ArgSignature.val.spelling \in {"lower", "upper", "spaced"}
    /\ ArgSignature.val.bytes = call.original.signature.val.bytes
\* C10 (amended): a signature that no longer decodes to the signed bytes, a
\* changed field value or an added field makes verification fail.
TamperRejected ==
  (Returned /\ (SignatureBytesChanged \/ FieldChanged \/ FieldAdded)) =>
    ~call.result.valid

\* A field added to a payload that passes every other check: only the
\* signature can reject it.
WitnessAddedFieldRejected ==
  /\ Returned /\ call.signer = "controller" /\ FieldAdded /\ ~SignatureChanged
  /\ PresencePasses /\ ActionPasses /\ ExpiryPasses /\ SkewPasses /\ ReplayPasses
  /\ ~call.result.valid /\ call.result.error = "Invalid signature"

(***************************************************************************)
(* SpecCrypto: sign_message, then verify_signature on what is presented.   *)
(***************************************************************************)
Messages ==
  {JsonDumps(create_signed_payload(a, PrivateKey("controller"), t, n).payload.val) :
     a \in Actions, t \in 0..MaxNow, n \in Nonces}
  \cup {<<Tok("raw", "shutdown")>>, <<Tok("raw", "wrong_message")>>, <<>>}

CryptoInit ==
  /\ call = NoCall
  /\ AgentIdle /\ host = NoHost
  /\ now = 0
  /\ \E m \in Messages, k \in KeyPairs :
       crypt = [stage |-> "drawn", message |-> m, signer |-> k,
                signature |-> JStr(""), presented_message |-> m,
                presented_signature |-> JStr(""), verifier |-> k,
                raised |-> "none", result |-> FALSE]

Sign ==
  /\ crypt.stage = "drawn"
  /\ crypt' = [crypt EXCEPT
       !.stage = "signed",
       !.signature = sign_message(crypt.message, PrivateKey(crypt.signer))]
  /\ UNCHANGED <<call, now, agentVars>>

Verify ==
  /\ crypt.stage = "signed"
  /\ \E m \in Messages, s \in DeliveredSignatures(crypt.signature) \ {Absent},
        k \in KeyPairs :
       crypt' = [crypt EXCEPT
         !.stage = "verified",
         !.presented_message = m,
         !.presented_signature = s,
         !.verifier = k,
         !.raised = VerifySignatureCall(m, s, PublicKey(k)).raised,
         !.result = verify_signature(m, s, PublicKey(k))]
  /\ UNCHANGED <<call, now, agentVars>>

SpecCrypto == CryptoInit /\ [][Sign \/ Verify]_vars

MalformedHex ==
  \/ crypt.presented_signature.kind \notin {"hex", "str"}
  \/ crypt.presented_signature.kind = "hex"
       /\ crypt.presented_signature.val.spelling = "truncated"
  \/ crypt.presented_signature.kind = "str" /\ crypt.presented_signature.val # ""
WrongKey == crypt.verifier # crypt.signer
MismatchedMessage == crypt.presented_message # crypt.message
\* C11: verify_signature never raises to its caller; on malformed hex, on a
\* signature made with another key and on a message other than the signed
\* one it returns False.
VerifyNeverRaises ==
  crypt.stage = "verified" =>
    /\ crypt.raised = "none"
    /\ crypt.result \in BOOLEAN
    /\ (MalformedHex \/ WrongKey \/ MismatchedMessage) => crypt.result = FALSE

\* "invalid_hex" presented as the signature of the signed message, to the
\* right key: bytes.fromhex raises inside, False comes out.
WitnessMalformedHexIsFalse ==
  /\ crypt.stage = "verified"
  /\ crypt.presented_signature = JStr("invalid_hex")
  /\ ~WrongKey /\ ~MismatchedMessage
  /\ crypt.raised = "none" /\ crypt.result = FALSE


(***************************************************************************)
(* SpecCanon: the bytes that are signed and the bytes that are verified.   *)
(* create_signed_payload builds the payload dict in the order action,      *)
(* timestamp, nonce; the JSON object that reaches the verifier carries the *)
(* same members in whatever order the sender's serializer wrote them, with *)
(* or without a member added on the way.                                   *)
(***************************************************************************)
\* The order of the dict literal of create_signed_payload.
CreatedOrder == <<"action", "timestamp", "nonce">>
Perms(S) ==
  {f \in [1..Cardinality(S) -> S] : \A i, j \in 1..Cardinality(S) : f[i] = f[j] => i = j}

CanonInit ==
  /\ crypt = NoCrypt
  /\ AgentIdle /\ host = NoHost
  /\ now \in 0..MaxNow
  /\ \E a \in Actions, k \in KeyPairs, n \in Nonces, expected \in Actions,
        extra \in BOOLEAN :
       \E order \in Perms({"action", "timestamp", "nonce"}
                          \cup (IF extra THEN {"extra"} ELSE {})) :
         call = [stage |-> "drawn", action |-> a, signer |-> k, timestamp |-> now,
                 nonce |-> n, expected_action |-> expected,
                 arrival_order |-> order,
                 payload |-> EmptyDict, signed_bytes |-> <<>>,
                 signature |-> JStr(""), arrived |-> EmptyDict,
                 verified_bytes |-> <<>>, valid |-> FALSE]

\* create_signed_payload, lines 165-173.
CanonSign ==
  /\ call.stage = "drawn"
  /\ LET payload == [action |-> JStr(call.action),
                     timestamp |-> JInt(call.timestamp),
                     nonce |-> JStr(call.nonce)]
         payload_bytes == json_dumps(payload, CreatedOrder, TRUE)
     IN  call' = [call EXCEPT
           !.stage = "signed",
           !.payload = payload,
           !.signed_bytes = payload_bytes,
           !.signature = sign_message(payload_bytes, PrivateKey(call.signer))]
  /\ UNCHANGED <<crypt, now, agentVars>>

\* verify_signed_payload on the object as it arrived, lines 204-236, with the
\* agent's key and max age and a fresh nonce set.
CanonVerify ==
  /\ call.stage = "signed"
  /\ LET keys == {call.arrival_order[i] : i \in DOMAIN call.arrival_order}
         arrived == [k \in keys |->
                       IF k \in DOMAIN call.payload THEN call.payload[k] ELSE JStr("x")]
         data == MkData(JDict(arrived), call.signature)
         pre == ChecksBeforeReplay(data, call.expected_action, AGENT_MAX_AGE, now)
         replay == ReplayCheck(data, PySet({}))
         payload_bytes == json_dumps(PayloadOf(data).val, call.arrival_order, TRUE)
     IN  call' = [call EXCEPT
           !.stage = "verified",
           !.arrived = arrived,
           !.verified_bytes = payload_bytes,
           !.valid = /\ pre.pass /\ replay.pass
                     /\ verify_signature(payload_bytes, SignatureOf(data), AgentKey)]
  /\ UNCHANGED <<crypt, now, agentVars>>

SpecCanon == CanonInit /\ [][CanonSign \/ CanonVerify]_vars

SamePairs == call.arrived = call.payload
\* C12: the signed bytes and the verified bytes are one function of the
\* payload's (field, value) pairs, fields sorted by key: a validly signed
\* payload verifies in whatever order its fields arrive.
CanonicalizationOrderIndependent ==
  /\ call.stage # "drawn" => call.signed_bytes = JsonDumps(call.payload)
  /\ call.stage = "verified" =>
       /\ call.verified_bytes = JsonDumps(call.arrived)
       /\ SamePairs => call.verified_bytes = call.signed_bytes
       /\ (SamePairs /\ call.signer = "controller"
              /\ call.action = call.expected_action) => call.valid

\* The fields arrive in the order timestamp, nonce, action and verify.
WitnessReorderedVerifies ==
  /\ call.stage = "verified" /\ SamePairs
  /\ call.arrival_order = <<"timestamp", "nonce", "action">>
  /\ call.verified_bytes = call.signed_bytes
  /\ call.valid

Separators(bytes) ==
  {bytes[i].text : i \in {i \in DOMAIN bytes :
     bytes[i].kind = "punct" /\ bytes[i].text \notin {"{", "}"}}}
MaxGroups == 7

DecimalDigits == <<"0", "1", "2", "3", "4", "5", "6", "7", "8", "9">>
UpperLetters == <<"A", "B", "C", "D", "E", "F", "G", "H", "I", "J", "K", "L">>
LowerLetters == <<"a", "b", "c", "d", "e", "f", "g", "h", "i", "j", "k", "l">>
Range(seq) == {seq[i] : i \in DOMAIN seq}
IndexOf(seq, c) == CHOOSE i \in DOMAIN seq : seq[i] = c
\* The whitespace bytes.fromhex skips, of the characters of the model.
AsciiWhitespace == {" ", "\n"}

\* [0-9A-Za-z]: a class one letter range too wide.
IsAlnum(c) == c \in Range(DecimalDigits) \cup Range(UpperLetters) \cup Range(LowerLetters)

\* [0-9A-Fa-f]
IsHexDigit(c) ==
  \/ c \in Range(DecimalDigits)
  \/ c \in Range(UpperLetters) /\ IndexOf(UpperLetters, c) <= 6
  \/ c \in Range(LowerLetters) /\ IndexOf(LowerLetters, c) <= 6

\* The value of a hex digit.
HexValue(c) ==
  IF c \in Range(DecimalDigits) THEN IndexOf(DecimalDigits, c) - 1
  ELSE IF c \in Range(UpperLetters) THEN 9 + IndexOf(UpperLetters, c)
  ELSE 9 + IndexOf(LowerLetters, c)

\* str.upper() and str.lower()
StrUpper(s) ==
  [i \in DOMAIN s |->
     IF s[i] \in Range(LowerLetters) THEN UpperLetters[IndexOf(LowerLetters, s[i])]
     ELSE s[i]]
StrLower(s) ==
  [i \in DOMAIN s |->
     IF s[i] \in Range(UpperLetters) THEN LowerLetters[IndexOf(UpperLetters, s[i])]
     ELSE s[i]]

\* str.replace(old, ""), old one character long.
StrRemove(s, old) == SelectSeq(s, LAMBDA c : c # old)

\* "$" without re.MULTILINE: the end of the string, or just before a newline
\* that ends the string.
AtDollar(s, pos) ==
  \/ pos = Len(s) + 1
  \/ pos = Len(s) /\ s[pos] = "\n"

\* MAC_PATTERN.match(mac_address) is not None, for the pattern
\* ^([0-9A-Fa-f]{2}[:-]){5}([0-9A-Fa-f]{2})$.  Every quantifier has a fixed
\* count, so the match is decided position by position.
validate_mac(mac_address) ==
  /\ Len(mac_address) >= 17
  /\ \A g \in 0..4 :
       /\ IsHexDigit(mac_address[3 * g + 1]) /\ IsHexDigit(mac_address[3 * g + 2])
       /\ mac_address[3 * g + 3] \in {":", "-"}
  /\ IsHexDigit(mac_address[16]) /\ IsHexDigit(mac_address[17])
  /\ AtDollar(mac_address, 18)

\* A normalization that leaves the letter case alone.
normalize_mac_keep_case(mac_address) == StrRemove(StrRemove(mac_address, ":"), "-")

normalize_mac(mac_address) == StrUpper(StrRemove(StrRemove(mac_address, ":"), "-"))

\* bytes.fromhex on a character string: [ok, bytes].  Whitespace is skipped
\* before each pair of digits; a pair is two hex digits next to each other.
RECURSIVE FromHexChars(_)
FromHexChars(s) ==
  IF s = <<>> THEN [ok |-> TRUE, bytes |-> <<>>]
  ELSE IF Head(s) \in AsciiWhitespace THEN FromHexChars(Tail(s))
  ELSE IF Len(s) >= 2 /\ IsHexDigit(s[1]) /\ IsHexDigit(s[2])
    THEN LET rest == FromHexChars(SubSeq(s, 3, Len(s)))
         IN  [ok |-> rest.ok,
              bytes |-> <<16 * HexValue(s[1]) + HexValue(s[2])>> \o rest.bytes]
  ELSE [ok |-> FALSE, bytes |-> <<>>]

\* b * n
RECURSIVE Repeat(_, _)
Repeat(b, n) == IF n = 0 THEN <<>> ELSE b \o Repeat(b, n - 1)

\* b'\xff' * 6 + mac_bytes * 16
MagicPacket(mac_bytes) == Repeat(<<255>>, 6) \o Repeat(mac_bytes, 16)

DEFAULT_BROADCAST == "255.255.255.255"
DEFAULT_PORT == 9
NoSend == [raised |-> "none", sockets |-> 0, broadcast_option |-> FALSE, sent |-> <<>>]

\* The length check left out: only the hex decoding can refuse an address.
MacRefusedByDecodingOnly(mac) == ~FromHexChars(mac).ok

\* Lines 62-68: the two checks that raise ValueError.
MacRefused(mac) == Len(mac) # 12 \/ ~FromHexChars(mac).ok

\* send_wol_packet: what it raises, the sockets it opened and the datagrams it
\* handed to sendto, each [data, address].  network_up says whether sendto
\* succeeds; when it does not, OSError leaves the function.
send_wol_packet(mac_address, broadcast, port, network_up) ==
  LET mac == normalize_mac(mac_address)
  IN  IF MacRefused(mac) THEN [NoSend EXCEPT !.raised = "ValueError"]
      ELSE LET magic_packet == MagicPacket(FromHexChars(mac).bytes)
           IN  IF network_up
                 THEN [raised |-> "none", sockets |-> 1, broadcast_option |-> TRUE,
                       sent |-> <<[data |-> magic_packet,
                                   address |-> <<broadcast, port>>]>>]
               ELSE [raised |-> "OSError", sockets |-> 1, broadcast_option |-> TRUE,
                     sent |-> <<>>]

(***************************************************************************)
(* Spec: the agent (agent.py, create_agent_app).  Every request runs its   *)
(* handler on a thread of its own (app.run serves threaded); the steps of  *)
(* different handlers interleave.  A handler touches the shared set twice, *)
(* at "nonce in used_nonces" and at "used_nonces.add(nonce)": the two are  *)
(* separate steps.                                                         *)
(***************************************************************************)
MacAddress ==
  <<"A", "A", ":", "B", "B", ":", "C", "C", ":", "D", "D", ":", "E", "E", ":", "F", "F">>

\* The machine is looked at for the first time by the first handler that
\* reaches the capability check; until then nothing depends on what it is.
Unprobed == [platform |-> "unprobed", root |-> FALSE, sudo |-> "missing"]
Hosts ==
  {[platform |-> "win32", root |-> FALSE, sudo |-> "missing"],
   [platform |-> "linux", root |-> TRUE, sudo |-> "missing"]}
  \cup {[platform |-> "linux", root |-> FALSE, sudo |-> sd] :
          sd \in {"missing", "passwordless", "password"}}

Endpoints == {"/wol", "/shutdown"}
\* Both handlers verifying against "shutdown".
ExpectedActionCopied(endpoint) == "shutdown"
ExpectedAction(endpoint) == IF endpoint = "/wol" THEN "wol" ELSE "shutdown"

\* The bodies a request can carry: the JSON object {}, or a payload signed by
\* the controller or by the intruder, stamped now, with or without close_port.  The
\* state keeps how the body was made; BodyData is the JSON the handler reads.
NoPayloadBody == [kind |-> "none"]
NonceOrder == <<"n1", "n2">>
CarriedNonces == {req[q].body.nonce : q \in {q \in Req : req[q].body.kind = "signed"}}
\* token_hex values are interchangeable: a request carries a nonce an earlier
\* request carried, or the first one none has carried yet.
NonceChoices ==
  CarriedNonces
  \cup {NonceOrder[i] : i \in {i \in DOMAIN NonceOrder :
          /\ NonceOrder[i] \notin CarriedNonces
          /\ \A j \in 1..(i - 1) : NonceOrder[j] \in CarriedNonces}}
SignedBodies ==
  [kind : {"signed"}, action : Actions, signer : KeyPairs, timestamp : {now},
   nonce : NonceChoices, close_port : {FALSE}]
AgentBodies(endpoint) ==
  {NoPayloadBody} \cup SignedBodies
  \cup (IF endpoint = "/shutdown"
          THEN {[b EXCEPT !.close_port = TRUE] : b \in SignedBodies}
        ELSE {})
\* "request.get_json() or {}"
OrEmptyDict(v) == IF Truthy(v) THEN v ELSE JDict(EmptyDict)
BodyData(body) ==
  IF body.kind \in {"none", "empty"} THEN EmptyDict
  ELSE IF body.kind = "json" THEN OrEmptyDict(body.value).val
  ELSE LET signed == create_signed_payload(body.action, PrivateKey(body.signer),
                                           body.timestamp, body.nonce)
       IN  IF body.close_port THEN With(signed, "close_port", JBool(TRUE))
           ELSE signed
Data(r) == BodyData(req[r].body)

AgentInit ==
  /\ crypt = NoCrypt
  /\ call = NoCall
  /\ now = 0
  /\ host = Unprobed
  /\ AgentIdle

ErrorBody(text) == [error |-> text]
Finish(r, status, body) ==
  /\ reply' = [reply EXCEPT ![r] = [status |-> status, body |-> body]]
  /\ pc' = [pc EXCEPT ![r] = "done"]

\* A handler that goes on with the request whatever the verification said.
RejectsNothing(is_valid) == FALSE

\* "if not is_valid: return jsonify({"error": error}), 403"
Rejects(is_valid) == ~is_valid

\* request.get_json(): the exceptions it can raise, "none" when it returns.
\* A body that does not parse as JSON raises BadRequest.  A request without a
\* JSON body (no Content-Type: application/json, as the wake command posts
\* it) depends on the framework installed: Flask before 2.1 returns None,
\* 2.1 and 2.2 raise BadRequest, later versions raise UnsupportedMediaType.
GetJsonRaises(body) ==
  IF body.kind = "malformed" THEN {"BadRequest"}
  ELSE IF body.kind = "empty" THEN {"none", "BadRequest", "UnsupportedMediaType"}
  ELSE {"none"}
\* str(e) of the two
HttpExceptionText(exc) ==
  IF exc = "BadRequest" THEN "400 Bad Request" ELSE "415 Unsupported Media Type"
\* request.get_json() when it returns
GetJson(body) ==
  IF body.kind = "json" THEN body.value
  ELSE IF body.kind = "empty" THEN PyNone
  ELSE JDict(BodyData(body))

\* A membership test that takes whatever is no container for an empty one.
IterableOrEmpty(v) == TRUE

\* '"payload" not in data' raises TypeError unless data is a container.
Iterable(v) == v.kind \in {"dict", "list", "str"}

\* '"payload" in data': a key of a dict, an item of a list, a substring of a
\* string (of the strings of the model only "payload" contains it).
Contains(v, key) ==
  CASE v.kind = "dict" -> key \in DOMAIN v.val
    [] v.kind = "list" -> \E i \in DOMAIN v.val : v.val[i] = JStr(key)
    [] v.kind = "str" -> v.val = key
    [] OTHER -> FALSE

\* Both handlers answering 401 to a body without payload.
MissingPayloadAlways401(endpoint) ==
  [status |-> 401,
   error |-> IF endpoint = "/wol" THEN "Authentication required. Use signed payload."
             ELSE "Legacy signature format removed. Use payload with timestamp and nonce."]

\* Lines 65-67 and 93-95.
MissingPayload(endpoint) ==
  IF endpoint = "/wol"
    THEN [status |-> 401, error |-> "Authentication required. Use signed payload."]
  ELSE [status |-> 400,
        error |-> "Legacy signature format removed. Use payload with timestamp and nonce."]

\* "except Exception as e" of the handlers, lines 81 and 152.
HandlerExcepts(exc) ==
  exc \in {"BadRequest", "UnsupportedMediaType", "AttributeError", "TypeError",
           "ValueError", "OSError"}

\* An exception raised in the try block of a handler: 500 with str(e).  An
\* exception that leaves the view function gets the framework's error page.
Raise(r, exc, text) ==
  IF HandlerExcepts(exc) THEN Finish(r, 500, ErrorBody(text))
  ELSE Finish(r, 500, [html |-> "500 Internal Server Error"])

\* verify_signed_payload ends with the reason given: it returns (False, error)
\* and the handler answers 403.  A reason that is the text of an exception
\* comes from its except clause; an exception that clause does not catch
\* reaches the handler's.
Refused(r, endpoint, error) ==
  LET exc == ExceptionOf(error)
  IN  IF exc = "none" \/ ExceptExceptionAsE(exc)
        THEN /\ verdict' = [verdict EXCEPT ![r] =
                  [called |-> TRUE, expected_action |-> ExpectedAction(endpoint),
                   valid |-> FALSE, error |-> error]]
             /\ Finish(r, 403, ErrorBody(error))
      ELSE /\ Raise(r, exc, error)
           /\ UNCHANGED verdict

\* The handler on the body given, up to the replay step of
\* verify_signed_payload: get_json, close_port, the payload key, then
\* presence, action, timestamps.
Handle(r, endpoint, body) ==
  LET json == GetJson(body)
      data == OrEmptyDict(json)
      missing == MissingPayload(endpoint)
  IN  /\ req' = [req EXCEPT ![r] = [endpoint |-> endpoint, body |-> body]]
      /\ \E raised \in GetJsonRaises(body) :
         IF raised # "none"
           THEN /\ Raise(r, raised, HttpExceptionText(raised))
                /\ UNCHANGED <<verdict, local>>
         ELSE IF endpoint = "/shutdown" /\ data.kind # "dict"
           THEN /\ Raise(r, "AttributeError", NoAttributeGet(data))
                /\ UNCHANGED <<verdict, local>>
         ELSE IF ~Iterable(data)
           THEN /\ Raise(r, "TypeError", NotIterable(data))
                /\ UNCHANGED <<verdict, local>>
         ELSE IF ~Contains(data, "payload")
           THEN /\ Finish(r, missing.status, ErrorBody(missing.error))
                /\ UNCHANGED <<verdict, local>>
         ELSE IF data.kind # "dict"
           THEN /\ Refused(r, endpoint, NoAttributeGet(data))
                /\ UNCHANGED local
         ELSE LET pre == ChecksBeforeReplay(data.val, ExpectedAction(endpoint),
                                            AGENT_MAX_AGE, now)
              IN  IF ~pre.pass
                    THEN /\ Refused(r, endpoint, pre.error)
                         /\ UNCHANGED local
                  ELSE /\ pc' = [pc EXCEPT ![r] = "replay"]
                       /\ local' = [local EXCEPT ![r] =
                            [@ EXCEPT !.current_time = now,
                                      !.seen_accepted = accepted \cap {NonceOf(data.val)},
                                      !.seen_burned = burned \cap {NonceOf(data.val)}]]
                       /\ UNCHANGED <<verdict, reply>>

\* A request arrives, with one of the bodies of AgentBodies.
Receive(r) ==
  /\ pc[r] = "idle"
  /\ \A q \in Req : q < r => pc[q] # "idle"
  /\ \E endpoint \in Endpoints :
       \E body \in AgentBodies(endpoint) : Handle(r, endpoint, body)
  /\ UNCHANGED <<crypt, call, now, host, used_nonces, effects, accepted, burned, child>>

\* "if nonce in used_nonces: return False, ..."
ReplayStep(r) ==
  /\ pc[r] = "replay"
  /\ LET chk == ReplayCheck(Data(r), PySet(used_nonces))
     IN  IF ~chk.pass
           THEN Refused(r, req[r].endpoint, chk.error)
         ELSE /\ pc' = [pc EXCEPT ![r] = "record"]
              /\ UNCHANGED <<verdict, reply>>
  /\ UNCHANGED <<crypt, call, now, host, used_nonces, req, local, effects,
                 accepted, burned, child>>

\* "used_nonces.add(nonce)", the signature check, the return of
\* verify_signed_payload and the handler's "if not is_valid".
RecordStep(r) ==
  /\ pc[r] = "record"
  /\ LET out == RecordThenVerify(Data(r), AgentKey, PySet(used_nonces))
         nonce == NonceOf(Data(r))
     IN  /\ used_nonces' = out.used_nonces.val
         /\ verdict' = [verdict EXCEPT ![r] =
              [called |-> TRUE,
               expected_action |-> ExpectedAction(req[r].endpoint),
               valid |-> out.valid, error |-> out.error]]
         /\ accepted' = IF out.valid THEN accepted \cup {nonce} ELSE accepted
         /\ burned' = IF out.valid THEN burned ELSE burned \cup {nonce}
         /\ IF Rejects(out.valid)
              THEN Finish(r, 403, ErrorBody(out.error))
            ELSE /\ pc' = [pc EXCEPT ![r] =
                      IF req[r].endpoint = "/wol" THEN "send" ELSE "capability"]
                 /\ UNCHANGED reply
  /\ UNCHANGED <<crypt, call, now, host, req, local, effects, child>>

\* send_wol_packet(mac_address) of the agent, with the network up and down.
ConfiguredSends ==
  {send_wol_packet(MacAddress, DEFAULT_BROADCAST, DEFAULT_PORT, network_up) :
     network_up \in BOOLEAN}

\* A handler that takes the address from the request when it names one.
SendWolFromBody(r) ==
  /\ pc[r] = "send"
  /\ \E network_up \in BOOLEAN :
       LET mac_address == DictGet(Data(r), "mac", JStr(MacAddress)).val
           result == send_wol_packet(mac_address, DEFAULT_BROADCAST, DEFAULT_PORT,
                                     network_up)
       IN  /\ call' = [stage |-> "sent", mac_address |-> mac_address, result |-> result]
           /\ IF result.raised = "none"
                THEN /\ effects' = [effects EXCEPT ![r] = Append(@, "wol_packet")]
                     /\ Finish(r, 200, [status |-> "WOL packet sent",
                                        mac |-> mac_address])
              ELSE /\ Raise(r, result.raised, "send_wol_packet raised")
                   /\ UNCHANGED effects
  /\ UNCHANGED <<crypt, now, host, used_nonces, req, local, verdict,
                 accepted, burned, child>>

\* "send_wol_packet(mac_address)": it returns, or it raises and the handler
\* answers 500.
SendWol(r) ==
  /\ pc[r] = "send"
  /\ \E result \in ConfiguredSends :
       /\ call' = [stage |-> "sent", mac_address |-> MacAddress, result |-> result]
       /\ IF result.raised = "none"
            THEN /\ effects' = [effects EXCEPT ![r] = Append(@, "wol_packet")]
                 /\ Finish(r, 200, [status |-> "WOL packet sent", mac |-> MacAddress])
          ELSE /\ Raise(r, result.raised, "send_wol_packet raised")
               /\ UNCHANGED effects
  /\ UNCHANGED <<crypt, now, host, used_nonces, req, local, verdict,
                 accepted, burned, child>>

\* sys.platform, os.geteuid(), shutil.which("sudo") and sudo's answer are
\* fixed for the life of the process.
Probe(r) ==
  /\ pc[r] = "capability"
  /\ host = Unprobed
  /\ host' \in Hosts
  /\ UNCHANGED <<crypt, call, now, used_nonces, pc, req, local, verdict, reply,
                 effects, accepted, burned, child>>

\* The probe is run and its return code is not looked at.
CapabilityIgnoresProbe(r) ==
  /\ pc[r] = "capability"
  /\ host # Unprobed
  /\ IF host.platform # "win32" /\ ~host.root
       THEN IF host.sudo # "missing"
              THEN /\ effects' = [effects EXCEPT ![r] = Append(@, "sudo_probe")]
                   /\ local' = [local EXCEPT ![r].use_sudo = TRUE]
                   /\ pc' = [pc EXCEPT ![r] = "lockdown"]
                   /\ UNCHANGED reply
            ELSE /\ Finish(r, 403, ErrorBody(
                      "Shutdown requires root privileges on this platform"))
                 /\ UNCHANGED <<local, effects>>
     ELSE /\ pc' = [pc EXCEPT ![r] = "lockdown"]
          /\ UNCHANGED <<local, effects, reply>>
  /\ UNCHANGED <<crypt, call, now, host, used_nonces, req, verdict,
                 accepted, burned, child>>

\* The two refusals without their "return": the handler goes on.
CapabilityDeniedFallsThrough(r) ==
  /\ pc[r] = "capability"
  /\ host # Unprobed
  /\ effects' = [effects EXCEPT ![r] =
       IF host.platform # "win32" /\ ~host.root /\ host.sudo # "missing"
         THEN Append(@, "sudo_probe") ELSE @]
  /\ local' = [local EXCEPT ![r].use_sudo =
       host.platform # "win32" /\ ~host.root /\ host.sudo = "passwordless"]
  /\ pc' = [pc EXCEPT ![r] = "lockdown"]
  /\ UNCHANGED <<crypt, call, now, host, used_nonces, req, verdict, reply,
                 accepted, burned, child>>

\* The probe run as "sudo true", without -n: where sudo wants a password it
\* asks on the terminal and the handler waits for it.
CapabilityAsksPassword(r) ==
  /\ pc[r] = "capability"
  /\ host # Unprobed
  /\ ~(host.platform # "win32" /\ ~host.root /\ host.sudo = "password")
  /\ IF host.platform # "win32" /\ ~host.root
       THEN IF host.sudo # "missing"
              THEN /\ effects' = [effects EXCEPT ![r] = Append(@, "sudo_probe")]
                   /\ local' = [local EXCEPT ![r].use_sudo = TRUE]
                   /\ pc' = [pc EXCEPT ![r] = "lockdown"]
                   /\ UNCHANGED reply
            ELSE /\ Finish(r, 403, ErrorBody(
                      "Shutdown requires root privileges on this platform"))
                 /\ UNCHANGED <<local, effects>>
     ELSE /\ pc' = [pc EXCEPT ![r] = "lockdown"]
          /\ UNCHANGED <<local, effects, reply>>
  /\ UNCHANGED <<crypt, call, now, host, used_nonces, req, verdict,
                 accepted, burned, child>>

\* Lines 109-123: root, or the passwordless-sudo probe.
Capability(r) ==
  /\ pc[r] = "capability"
  /\ host # Unprobed
  /\ IF host.platform # "win32" /\ ~host.root
       THEN IF host.sudo # "missing"
              THEN /\ effects' = [effects EXCEPT ![r] = Append(@, "sudo_probe")]
                   /\ IF host.sudo = "passwordless"
                        THEN /\ local' = [local EXCEPT ![r].use_sudo = TRUE]
                             /\ pc' = [pc EXCEPT ![r] = "lockdown"]
                             /\ UNCHANGED reply
                      ELSE /\ Finish(r, 403, ErrorBody(
                                "Shutdown requires passwordless sudo on this platform"))
                           /\ UNCHANGED local
            ELSE /\ Finish(r, 403, ErrorBody(
                      "Shutdown requires root privileges on this platform"))
                 /\ UNCHANGED <<local, effects>>
     ELSE /\ pc' = [pc EXCEPT ![r] = "lockdown"]
          /\ UNCHANGED <<local, effects, reply>>
  /\ UNCHANGED <<crypt, call, now, host, used_nonces, req, verdict,
                 accepted, burned, child>>

\* close_port refused where it is not supported: the handler returns an error.
LockdownFatalElsewhere(r) ==
  /\ pc[r] = "lockdown"
  /\ LET close_port == DictGet(Data(r), "close_port", JBool(FALSE))
     IN  IF Truthy(close_port)
           THEN IF host.platform = "win32"
                  THEN /\ effects' = [effects EXCEPT ![r] = Append(@, "firewall_rule")]
                       /\ pc' = [pc EXCEPT ![r] = "spawn"]
                       /\ UNCHANGED reply
                ELSE /\ Finish(r, 400, ErrorBody("close_port is only supported on Windows"))
                     /\ UNCHANGED effects
         ELSE /\ pc' = [pc EXCEPT ![r] = "spawn"]
              /\ UNCHANGED <<effects, reply>>
  /\ UNCHANGED <<crypt, call, now, host, used_nonces, req, local, verdict,
                 accepted, burned, child>>

\* The netsh command run wherever the agent runs.
LockdownAnyPlatform(r) ==
  /\ pc[r] = "lockdown"
  /\ LET close_port == DictGet(Data(r), "close_port", JBool(FALSE))
     IN  IF Truthy(close_port)
           THEN effects' = [effects EXCEPT ![r] = Append(@, "firewall_rule")]
         ELSE UNCHANGED effects
  /\ pc' = [pc EXCEPT ![r] = "spawn"]
  /\ UNCHANGED <<crypt, call, now, host, used_nonces, req, local, verdict, reply,
                 accepted, burned, child>>

\* Lines 125-135: the firewall rule on Windows, a warning elsewhere.
Lockdown(r) ==
  /\ pc[r] = "lockdown"
  /\ LET close_port == DictGet(Data(r), "close_port", JBool(FALSE))
     IN  IF Truthy(close_port)
           THEN IF host.platform = "win32"
                  THEN /\ effects' = [effects EXCEPT ![r] = Append(@, "firewall_rule")]
                       /\ UNCHANGED local
                ELSE /\ local' = [local EXCEPT ![r].warning =
                          JStr("close_port is only supported on Windows")]
                     /\ UNCHANGED effects
         ELSE UNCHANGED <<local, effects>>
  /\ pc' = [pc EXCEPT ![r] = "spawn"]
  /\ UNCHANGED <<crypt, call, now, host, used_nonces, req, verdict, reply,
                 accepted, burned, child>>

\* int(shutdown_delay) used as it is.
Max0Unclamped(n) == n

\* max(0, n)
Max0(n) == IF n > 0 THEN n ELSE 0

\* shutil.which("shutdown") or "/sbin/shutdown"
ShutdownPath == "/sbin/shutdown"

\* A command line that never goes through sudo.
ShutdownCommandNoSudo(platform, use_sudo, delay_seconds) ==
  IF platform = "win32"
    THEN [argv0 |-> "shutdown", delay |-> delay_seconds, sudo |-> FALSE,
          text |-> "shutdown /s /t " \o ToString(delay_seconds)]
  ELSE [argv0 |-> "/bin/sh", delay |-> delay_seconds, sudo |-> FALSE,
        text |-> "/bin/sh -c sleep " \o ToString(delay_seconds) \o "; "
                   \o ShutdownPath \o " -h now"]

\* Lines 139-145: the argument list handed to subprocess.Popen.
ShutdownCommand(platform, use_sudo, delay_seconds) ==
  IF platform = "win32"
    THEN [argv0 |-> "shutdown", delay |-> delay_seconds, sudo |-> FALSE,
          text |-> "shutdown /s /t " \o ToString(delay_seconds)]
  ELSE [argv0 |-> "/bin/sh", delay |-> delay_seconds, sudo |-> use_sudo,
        text |-> "/bin/sh -c sleep " \o ToString(delay_seconds) \o "; "
                   \o (IF use_sudo THEN "sudo -n " ELSE "")
                   \o ShutdownPath \o " -h now"]

\* "Shutdown initiated (delay: {delay_seconds}s)", with the warning if any.
ShutdownResponse(delay_seconds, warning) ==
  LET status == "Shutdown initiated (delay: " \o ToString(delay_seconds) \o "s)"
  IN  IF Truthy(warning) THEN [status |-> status, warning |-> warning.val]
      ELSE [status |-> status]

\* Lines 137-150 as a function of what they read: the command spawned and
\* the body of the 200 response.
Schedule(platform, use_sudo, shutdown_delay, warning) ==
  LET delay_seconds == Max0(shutdown_delay)
  IN  [command |-> ShutdownCommand(platform, use_sudo, delay_seconds),
       response |-> ShutdownResponse(delay_seconds, warning)]

\* subprocess.run in place of Popen: the handler waits for the command.
SpawnAndWait(r) ==
  /\ pc[r] = "spawn"
  /\ LET scheduled == Schedule(host.platform, local[r].use_sudo,
                               DEFAULT_SHUTDOWN_DELAY, local[r].warning)
     IN  /\ effects' = [effects EXCEPT ![r] = Append(@, "shutdown_spawn")]
         /\ child' = [child EXCEPT ![r] =
                        [state |-> "exited", command |-> scheduled.command]]
         /\ Finish(r, 200, scheduled.response)
  /\ UNCHANGED <<crypt, call, now, host, used_nonces, req, local, verdict,
                 accepted, burned>>

\* Lines 137-150: subprocess.Popen and the 200 response; Popen can raise, and
\* the handler then answers 500.  The agent of Spec was created with the
\* default shutdown_delay.
Spawn(r) ==
  /\ pc[r] = "spawn"
  /\ LET scheduled == Schedule(host.platform, local[r].use_sudo,
                               DEFAULT_SHUTDOWN_DELAY, local[r].warning)
     IN  \E spawned \in BOOLEAN :
           IF spawned
             THEN /\ effects' = [effects EXCEPT ![r] = Append(@, "shutdown_spawn")]
                  /\ child' = [child EXCEPT ![r] =
                                 [state |-> "running", command |-> scheduled.command]]
                  /\ Finish(r, 200, scheduled.response)
           ELSE /\ Raise(r, "OSError", "Popen raised")
                /\ UNCHANGED <<effects, child>>
  /\ UNCHANGED <<crypt, call, now, host, used_nonces, req, local, verdict,
                 accepted, burned>>

\* The spawned command runs to its end on its own: the sleep, then the
\* shutdown command, whatever comes of it.  No handler takes part.
ChildExit(r) ==
  /\ child[r].state = "running"
  /\ child' = [child EXCEPT ![r].state = "exited"]
  /\ UNCHANGED <<crypt, call, now, host, used_nonces, pc, req, local, verdict,
                 reply, effects, accepted, burned>>

Next ==
  \E r \in Req :
       \/ Receive(r)
       \/ ReplayStep(r)
       \/ RecordStep(r)
       \/ SendWol(r)
       \/ Probe(r)
       \/ Capability(r)
       \/ Lockdown(r)
       \/ Spawn(r)
       \/ ChildExit(r)

Spec == AgentInit /\ [][Next]_vars

(***************************************************************************)
(* SpecRequest: the agent on one request, whatever its body: a signed      *)
(* payload and signature as delivered in SpecVerify, with or without       *)
(* close_port, JSON that is no object, or no JSON at all.                  *)
(***************************************************************************)
\* The bodies of the one request: none at all, no JSON, a JSON value that is
\* no signed request, the body of the shutdown command of nanowol.py (a
\* signature over b"shutdown" and close_port), or what is delivered in
\* place of a signed request, without close_port and with close_port true or
\* false, or naming an address of its own.
RequestBodies ==
  LET other_json ==
        {JDict(EmptyDict), PyNone, JList, JArray(<<JStr("payload")>>),
         JArray(<<JStr("x")>>), JStr(""), JStr("payload"), JStr("x"),
         JInt(0), JInt(5), JBool(FALSE), JBool(TRUE)}
        \cup {JDict([signature |-> sign_message(<<Tok("raw", "shutdown")>>,
                                                PrivateKey("controller")),
                     close_port |-> JBool(b)]) : b \in BOOLEAN}
      other_mac ==
        <<"1", "1", ":", "2", "2", ":", "3", "3", ":", "4", "4", ":", "5", "5", ":",
          "6", "6">>
      delivered ==
        UNION {LET original == create_signed_payload(a, PrivateKey(k), now + off, "n1")
                   stamps == {now + o : o \in Offsets(AGENT_MAX_AGE)}
               IN  {MkData(p, sig) :
                      p \in DeliveredPayloads(original.payload.val, stamps),
                      sig \in DeliveredSignatures(original.signature)} :
                 a \in Actions, k \in KeyPairs, off \in Offsets(AGENT_MAX_AGE)}
  IN  {[kind |-> "empty"], [kind |-> "malformed"]}
      \cup {[kind |-> "json", value |-> v] : v \in other_json}
      \cup {[kind |-> "json", value |-> JDict(d)] : d \in delivered}
      \cup {[kind |-> "json", value |-> JDict(With(d, "close_port", JBool(b)))] :
              d \in delivered, b \in BOOLEAN}
      \cup {[kind |-> "json",
             value |-> JDict(With(d, "mac", JStr(other_mac)))] :
              d \in delivered}

\* The one request arrives, with any body.
ReceiveAny(r) ==
  /\ pc[r] = "idle"
  /\ \E endpoint \in Endpoints :
       \E body \in RequestBodies : Handle(r, endpoint, body)
  /\ UNCHANGED <<crypt, call, now, host, used_nonces, effects, accepted, burned, child>>

NextRequest ==
  \/ ReceiveAny(1)
  \/ ReplayStep(1)
  \/ RecordStep(1)
  \/ SendWol(1)
  \/ Probe(1)
  \/ Capability(1)
  \/ Lockdown(1)
  \/ Spawn(1)
  \/ ChildExit(1)

SpecRequest == AgentInit /\ [][NextRequest]_vars

\* A handler that has been entered runs to its return: Flask runs it on a
\* thread of its own, nothing in it waits for another handler, and the two
\* calls that leave the process (subprocess.run of the sudo probe, Popen)
\* come back.  Nothing is asked of the arrival of requests or of the child.
HandlerStep(r) ==
  \/ ReplayStep(r)
  \/ RecordStep(r)
  \/ SendWol(r)
  \/ Probe(r)
  \/ Capability(r)
  \/ Lockdown(r)
  \/ Spawn(r)
SpecRequestFair == SpecRequest /\ WF_vars(HandlerStep(1))

(***************************************************************************)
(* SpecRepeat: verify_signed_payload called again and again on one         *)
(* payload signed by the controller, by a caller that passes no nonce set  *)
(* (the default None) or one set to every call, while the clock runs from  *)
(* the payload's timestamp to past its freshness window.                   *)
(***************************************************************************)
\* Calls are made up to MaxLate seconds after the payload has left its
\* freshness window.
MaxLate == 1

RepeatInit ==
  /\ crypt = NoCrypt
  /\ AgentIdle /\ host = NoHost
  /\ now = 0
  /\ \E a \in Actions, expected \in Actions, n \in Nonces, used \in {PyNone, PySet({})},
        timestamp \in {0, CLOCK_SKEW, CLOCK_SKEW + 1} :
       call = [stage |-> "drawn",
               data |-> create_signed_payload(a, PrivateKey("controller"), timestamp, n),
               public_key |-> AgentKey,
               expected_action |-> expected,
               max_age_seconds |-> AGENT_MAX_AGE,
               given |-> used,
               used_nonces |-> used,
               current_time |-> 0,
               earlier |-> {},
               result |-> Outcome(FALSE, NoError, used)]

\* One more call; a set passed in is left as the call changed it.
VerifyAgain ==
  /\ LET result == verify_signed_payload(call.data, call.public_key,
                      call.expected_action, call.max_age_seconds,
                      call.used_nonces, now)
     IN  call' = [call EXCEPT
           !.stage = "returned",
           !.earlier = IF call.stage = "returned" THEN @ \cup {call.result.valid} ELSE @,
           !.current_time = now,
           !.used_nonces = result.used_nonces,
           !.result = result]
  /\ UNCHANGED <<crypt, now, agentVars>>

\* int(time.time()) a second later; a call is made in every second.
Later ==
  /\ call.stage = "returned" /\ call.current_time = now
  /\ now < CLOCK_SKEW + 1 + AGENT_MAX_AGE + MaxLate
  /\ now' = now + 1
  /\ UNCHANGED <<crypt, call, agentVars>>

SpecRepeat == RepeatInit /\ [][VerifyAgain \/ Later]_vars

(***************************************************************************)
(* SpecReplay: the agent on one request and, once it is answered, on the   *)
(* same request presented again, at once or later.  time.time() is read    *)
(* once per request, on entering verify_signed_payload, so the clock moves *)
(* between the two and nowhere else.                                       *)
(***************************************************************************)
\* int(time.time()) a second later.
Tick ==
  /\ pc[1] = "done" /\ pc[2] = "idle"
  /\ now < AGENT_MAX_AGE + MaxLate
  /\ now' = now + 1
  /\ UNCHANGED <<crypt, call, agentVars>>

\* The body of the first request posted again to the same endpoint.
Resend(r) ==
  /\ pc[r] = "idle"
  /\ pc[1] = "done"
  /\ Handle(r, req[1].endpoint, req[1].body)
  /\ UNCHANGED <<crypt, call, now, host, used_nonces, effects, accepted, burned, child>>

NextReplay ==
  \/ Receive(1)
  \/ Tick
  \/ Resend(2)
  \/ \E r \in {1, 2} :
       \/ ReplayStep(r)
       \/ RecordStep(r)
       \/ SendWol(r)
       \/ Probe(r)
       \/ Capability(r)
       \/ Lockdown(r)
       \/ Spawn(r)
       \/ ChildExit(r)

SpecReplay == AgentInit /\ [][NextReplay]_vars

(***************************************************************************)
(* SpecDelay: the scheduling of lines 137-150 for an agent created with    *)
(* any shutdown_delay, on either platform, with and without sudo and the   *)
(* close_port warning.                                                     *)
(***************************************************************************)
\* --shutdown-delay ranges over -MaxDelay..MaxDelay.
MaxDelay == 6
Delays == (0 - MaxDelay)..MaxDelay

DelayInit ==
  /\ crypt = NoCrypt
  /\ AgentIdle /\ host = NoHost
  /\ now = 0
  /\ \E platform \in {"win32", "linux"}, use_sudo \in BOOLEAN, d \in Delays,
        warning \in {PyNone, JStr("close_port is only supported on Windows")} :
       /\ platform = "win32" => ~use_sudo /\ warning = PyNone
       /\ call = [stage |-> "created", platform |-> platform, use_sudo |-> use_sudo,
                  shutdown_delay |-> d, warning |-> warning,
                  command |-> NoCommand, response |-> EmptyDict]

ScheduleShutdown ==
  /\ call.stage = "created"
  /\ LET scheduled == Schedule(call.platform, call.use_sudo, call.shutdown_delay,
                               call.warning)
     IN  call' = [call EXCEPT !.stage = "scheduled",
                              !.command = scheduled.command,
                              !.response = scheduled.response]
  /\ UNCHANGED <<crypt, now, agentVars>>

SpecDelay == DelayInit /\ [][ScheduleShutdown]_vars


(***************************************************************************)
(* SpecWol: validate_mac, normalize_mac and send_wol_packet on one drawn   *)
(* string: an address written with any separators, with fewer or more      *)
(* groups, or with one character changed, added or removed.                *)
(***************************************************************************)
\* Twelve characters to write in pairs: addresses of the tests, and strings
\* that are no address.
Digits12 ==
  {<<"A", "A", "B", "B", "C", "C", "D", "D", "E", "E", "F", "F">>,
   <<"1", "2", "3", "4", "5", "6", "7", "8", "9", "A", "B", "C">>,
   <<"G", "G", "H", "H", "I", "I", "J", "J", "K", "K", "L", "L">>,
   <<"A", "A", "B", "B", "C", "C", "D", "D", "E", "E", " ", " ">>,
   <<"A", " ", "B", "B", "C", "C", "D", "D", "E", "E", "F", "F">>}

\* The groups written one after the other, seps[g] after group g.
RECURSIVE Written(_, _)
Written(pairs, seps) ==
  IF pairs = <<>> THEN <<>>
  ELSE Head(pairs) \o (IF Len(pairs) = 1 THEN <<>> ELSE Head(seps))
       \o Written(Tail(pairs), Tail(seps))

PairsOf(digits) == [g \in 1..(Len(digits) \div 2) |-> SubSeq(digits, 2 * g - 1, 2 * g)]
\* After each of the first five groups ':' or '-', or nothing after any.
SeparatorChoices ==
  [1..5 -> {<<":">>, <<"-">>}] \cup {[g \in 1..5 |-> <<>>]}

\* The strings handed to the three functions: an address in six groups, each
\* separator chosen on its own; one to MaxGroups groups with one separator
\* throughout; a well-written address with one character replaced, one
\* added or one removed.
MacInputs ==
  LET six_groups ==
        {Written(PairsOf(IF lower THEN StrLower(d) ELSE d), seps) :
           d \in Digits12, lower \in BOOLEAN, seps \in SeparatorChoices}
      group_digits == <<"A", "B", "C", "D", "E", "F", "0">>
      any_groups ==
        {Written([g \in 1..n |->
                    LET c == group_digits[((g - 1) % Len(group_digits)) + 1]
                    IN  <<c, c>>],
                 [g \in 1..n |-> sep]) :
           n \in 1..MaxGroups, sep \in {<<":">>, <<"-">>, <<>>}}
      plain ==
        {Written(PairsOf(<<"A", "A", "B", "B", "C", "C", "D", "D", "E", "E", "F", "F">>),
                 [g \in 1..5 |-> sep]) : sep \in {<<":">>, <<"-">>}}
      edit_chars == {"0", "a", "G", ":", "-", " ", "\n"}
      one_edit ==
        {[s EXCEPT ![i] = c] : s \in plain, i \in 1..17, c \in edit_chars}
        \cup {SubSeq(s, 1, i) \o <<c>> \o SubSeq(s, i + 1, Len(s)) :
                s \in plain, i \in 0..17, c \in edit_chars}
        \cup {SubSeq(s, 1, i - 1) \o SubSeq(s, i + 1, Len(s)) :
                s \in plain, i \in 1..17}
  IN  six_groups \cup any_groups \cup one_edit

WolInit ==
  /\ crypt = NoCrypt
  /\ AgentIdle /\ host = NoHost
  /\ now = 0
  /\ \E s \in MacInputs, network_up \in BOOLEAN,
        to \in {[broadcast |-> DEFAULT_BROADCAST, port |-> DEFAULT_PORT],
                [broadcast |-> "192.168.0.255", port |-> 7]} :
       call = [stage |-> "drawn", mac_address |-> s, broadcast |-> to.broadcast,
               port |-> to.port, network_up |-> network_up,
               valid |-> FALSE, normalized |-> <<>>, outcome |-> NoSend]

ValidateMac ==
  /\ call.stage = "drawn"
  /\ call' = [call EXCEPT !.stage = "validated",
                          !.valid = validate_mac(call.mac_address)]
  /\ UNCHANGED <<crypt, now, agentVars>>

NormalizeMac ==
  /\ call.stage = "validated"
  /\ call' = [call EXCEPT !.stage = "normalized",
                          !.normalized = normalize_mac(call.mac_address)]
  /\ UNCHANGED <<crypt, now, agentVars>>

SendWolPacket ==
  /\ call.stage = "normalized"
  /\ call' = [call EXCEPT
       !.stage = "sent",
       !.outcome = send_wol_packet(call.mac_address, call.broadcast, call.port,
                                   call.network_up)]
  /\ UNCHANGED <<crypt, now, agentVars>>

SpecWol == WolInit /\ [][ValidateMac \/ NormalizeMac \/ SendWolPacket]_vars

(***************************************************************************)
(* SpecKeys: the keygen command (nanowol.py) on one keys directory, run    *)
(* again and again with and without --force.  A file is the number of the  *)
(* key written in it; every run of generate_key_pair makes a key no run    *)
(* made before.                                                            *)
(***************************************************************************)
\* keygen is run at most MaxKeygen times.
MaxKeygen == 6
NoFile == [key |-> 0, mode |-> "none"]

\* crypto.py, generate_key_pair: both files are written, and the private one
\* is restricted where os.name is not 'nt'.
generate_key_pair(key, os_name) ==
  [private_pem |-> [key |-> key, mode |-> IF os_name # "nt" THEN "0600" ELSE "0644"],
   public_pem |-> [key |-> key, mode |-> "0644"]]

\* "private_path.exists()"
KeysExist(private_pem, public_pem) == private_pem # NoFile

\* nanowol.py, keygen: the directory as the command leaves it.
keygen(private_pem, public_pem, force, key, os_name) ==
  IF KeysExist(private_pem, public_pem) /\ ~force
    THEN [private_pem |-> private_pem, public_pem |-> public_pem]
  ELSE generate_key_pair(key, os_name)

\* The directory before the first run: empty, holding a key pair (the
\* controller), public.pem alone (the agent, which is handed a copy of it),
\* or private.pem alone.
KeysInit ==
  /\ crypt = NoCrypt
  /\ AgentIdle /\ host = NoHost
  /\ now = 0
  /\ \E has_private \in BOOLEAN, has_public \in BOOLEAN, os_name \in {"posix", "nt"} :
       LET pair == generate_key_pair(1, os_name)
       IN  call = [stage |-> "keys",
                   os_name |-> os_name,
                   private_pem |-> IF has_private THEN pair.private_pem ELSE NoFile,
                   public_pem |-> IF has_public THEN pair.public_pem ELSE NoFile,
                   runs |-> 0,
                   force |-> FALSE,
                   before |-> [private_pem |-> NoFile, public_pem |-> NoFile]]

Keygen ==
  /\ call.stage = "keys"
  /\ call.runs < MaxKeygen
  /\ \E force \in BOOLEAN :
       LET after == keygen(call.private_pem, call.public_pem, force,
                           call.runs + 2, call.os_name)
       IN  call' = [call EXCEPT
             !.private_pem = after.private_pem,
             !.public_pem = after.public_pem,
             !.runs = @ + 1,
             !.force = force,
             !.before = [private_pem |-> call.private_pem,
                         public_pem |-> call.public_pem]]
  /\ UNCHANGED <<crypt, now, agentVars>>

SpecKeys == KeysInit /\ [][Keygen]_vars

(***************************************************************************)
(* Properties of the agent (Spec).                                         *)
(***************************************************************************)
Signed(r) == req[r].body.kind = "signed"
Nonce(r) == JStr(req[r].body.nonce)
Done(r) == pc[r] = "done"
AnsweredReplay(r) ==
  /\ verdict[r].called /\ ~verdict[r].valid
  /\ verdict[r].error = "Nonce already used (replay attack)"
  /\ reply[r].status = 403
  /\ reply[r].body = [error |-> "Nonce already used (replay attack)"]
\* The handler has gone past "if nonce in used_nonces" without returning.
PassedReplayStep(r) ==
  \/ pc[r] \in {"record", "send", "capability", "lockdown", "spawn"}
  \/ Done(r) /\ verdict[r].called /\ verdict[r].error \in {"None", "Invalid signature"}

\* C1: once a call has returned (True, None) for a nonce, every request that
\* arrives later with that nonce and passes the action and timestamp checks is
\* answered 403 "Nonce already used (replay attack)", valid signature or not.
ReplayRejected ==
  \A r \in Req :
    (/\ Signed(r)
     /\ req[r].body.action = ExpectedAction(req[r].endpoint)
     /\ Nonce(r) \in local[r].seen_accepted) =>
       /\ ~PassedReplayStep(r)
       /\ Done(r) => AnsweredReplay(r)

\* The same signed payload presented a second time, verbatim.
WitnessVerbatimReplay ==
  \E r1, r2 \in Req :
    /\ r1 # r2 /\ req[r1] = req[r2] /\ Signed(r1)
    /\ req[r1].body.signer = "controller"
    /\ Done(r1) /\ verdict[r1].valid /\ reply[r1].status = 200
    /\ Nonce(r2) \in local[r2].seen_accepted
    /\ Done(r2) /\ AnsweredReplay(r2)

\* C2: of the handlers that carry the same nonce, at most one observes the
\* nonce as not present.
AtMostOnePassesReplayStep ==
  \A r1, r2 \in Req :
    (r1 # r2 /\ Signed(r1) /\ Signed(r2) /\ Nonce(r1) = Nonce(r2)) =>
      ~(PassedReplayStep(r1) /\ PassedReplayStep(r2))

Caused(r) == {effects[r][i] : i \in DOMAIN effects[r]}
\* C3: a packet is sent only after verification succeeded for "wol" in the
\* same request; the sudo probe, the firewall rule and the shutdown process
\* only after it succeeded for "shutdown"; a request refused on verification
\* grounds causes nothing.
NoEffectWithoutAuthentication ==
  \A r \in Req :
    /\ "wol_packet" \in Caused(r) =>
         (verdict[r].called /\ verdict[r].valid
            /\ verdict[r].expected_action = "wol")
    /\ Caused(r) \cap {"sudo_probe", "firewall_rule", "shutdown_spawn"} # {} =>
         (verdict[r].called /\ verdict[r].valid
            /\ verdict[r].expected_action = "shutdown")
    /\ (reply[r].status \in {400, 401}
          \/ (reply[r].status = 403 /\ ~verdict[r].valid)) => effects[r] = <<>>

WitnessEffectsAfterAuthentication ==
  \E r1, r2 \in Req :
    /\ effects[r1] = <<"sudo_probe", "shutdown_spawn">>
    /\ verdict[r1].valid /\ reply[r1].status = 200
    /\ Done(r2) /\ reply[r2].status = 403 /\ verdict[r2].called
    /\ verdict[r2].error = "Invalid signature" /\ effects[r2] = <<>>

\* C6: a call rejected with "Invalid signature" leaves its nonce in the set,
\* and every request that arrives later with that nonce is answered as a
\* replay, even when no payload with that nonce was ever accepted.
NonceRecordedBeforeSignatureCheck ==
  \A r \in Req :
    /\ (verdict[r].called /\ verdict[r].error = "Invalid signature") =>
         (~verdict[r].valid /\ Nonce(r) \in used_nonces)
    /\ (/\ Signed(r)
        /\ req[r].body.action = ExpectedAction(req[r].endpoint)
        /\ Nonce(r) \in local[r].seen_burned) =>
          /\ ~PassedReplayStep(r)
          /\ Done(r) => AnsweredReplay(r)

\* A validly signed payload refused as a replay of a nonce nobody was ever
\* accepted with.
WitnessNonceBurnedByForgery ==
  \E r1, r2 \in Req :
    /\ Signed(r1) /\ Signed(r2)
    /\ Done(r1) /\ req[r1].body.signer = "intruder"
    /\ verdict[r1].error = "Invalid signature"
    /\ Nonce(r2) = Nonce(r1) /\ Nonce(r2) \in local[r2].seen_burned
    /\ req[r2].body.signer = "controller"
    /\ Done(r2) /\ AnsweredReplay(r2)
    /\ Nonce(r2) \notin accepted

\* C14: a payload made by create_signed_payload("wol", sk), presented once
\* to the agent holding the matching public key, is accepted; the packet is
\* sent and the answer is 200 {"status": "WOL packet sent", "mac": <mac>}.
\* send_wol_packet raising (the socket, the configured MAC) is the one other
\* way the handler ends, with 500.
WolRoundTrip ==
  \A r \in Req :
    (/\ req[r].endpoint = "/wol" /\ Signed(r)
     /\ req[r].body.signer = "controller" /\ req[r].body.action = "wol"
     /\ \A q \in Req \ {r} : ~(Signed(q) /\ Nonce(q) = Nonce(r))) =>
      /\ verdict[r].called => verdict[r].valid
      /\ Done(r) =>
           /\ verdict[r].called
           /\ \/ /\ reply[r] = [status |-> 200,
                                body |-> [status |-> "WOL packet sent",
                                          mac |-> MacAddress]]
                 /\ effects[r] = <<"wol_packet">>
              \/ /\ reply[r] = [status |-> 500,
                                body |-> [error |-> "send_wol_packet raised"]]
                 /\ effects[r] = <<>>

WitnessWolAccepted ==
  \E r \in Req :
    /\ req[r].endpoint = "/wol" /\ Signed(r)
    /\ req[r].body.signer = "controller" /\ req[r].body.action = "wol"
    /\ \A q \in Req \ {r} : ~(Signed(q) /\ Nonce(q) = Nonce(r))
    /\ Done(r) /\ verdict[r].valid
    /\ reply[r].status = 200 /\ reply[r].body.mac = MacAddress
    /\ effects[r] = <<"wol_packet">>

(***************************************************************************)
(* The shutdown executor.                                                  *)
(***************************************************************************)
ValidShutdown(r) ==
  req[r].endpoint = "/shutdown" /\ verdict[r].called /\ verdict[r].valid
HostAuthorizes ==
  \/ host.platform = "win32"
  \/ host.platform = "linux" /\ (host.root \/ host.sudo = "passwordless")
HostDenies == host.platform = "linux" /\ ~host.root /\ host.sudo # "passwordless"
Count(seq, e) == Cardinality({i \in DOMAIN seq : seq[i] = e})
PasswordlessSudoRequired ==
  [error |-> "Shutdown requires passwordless sudo on this platform"]
RootRequired == [error |-> "Shutdown requires root privileges on this platform"]

\* The original statement of C15: every non-root, non-Windows agent without
\* passwordless sudo answers 403 "Shutdown requires passwordless sudo on
\* this platform", spawns nothing and adds no firewall rule.
PrivilegeDenialPasswordlessMessage ==
  \A r \in Req :
    (ValidShutdown(r) /\ HostDenies) =>
      /\ Caused(r) \cap {"shutdown_spawn", "firewall_rule"} = {}
      /\ child[r].state = "none"
      /\ Done(r) => reply[r] = [status |-> 403, body |-> PasswordlessSudoRequired]

\* C15 (amended): such an agent answers 403, spawns nothing and adds no
\* firewall rule; the error names passwordless sudo when sudo is installed
\* and root privileges when it is not.
PrivilegeDenial ==
  \A r \in Req :
    (ValidShutdown(r) /\ HostDenies) =>
      /\ Caused(r) \cap {"shutdown_spawn", "firewall_rule"} = {}
      /\ child[r].state = "none"
      /\ Done(r) =>
           reply[r] = [status |-> 403,
                       body |-> IF host.sudo = "missing" THEN RootRequired
                                ELSE PasswordlessSudoRequired]

\* sudo is installed and asks for a password.
WitnessDeniedAfterProbe ==
  \E r \in Req :
    /\ ValidShutdown(r) /\ HostDenies /\ host.sudo = "password"
    /\ Done(r) /\ reply[r] = [status |-> 403, body |-> PasswordlessSudoRequired]
    /\ effects[r] = <<"sudo_probe">> /\ child[r].state = "none"

ClosePort(r) == Signed(r) /\ req[r].body.close_port
\* C16: for a valid, authorized shutdown with close_port=true on a
\* non-Windows agent no firewall command is run, the process is still
\* spawned and the answer is 200 with a warning; the warning is absent
\* whenever close_port is false or the platform is Windows.  Popen raising
\* is the one other way the handler ends, with 500.
ClosePortNonFatal ==
  \A r \in Req :
    (ValidShutdown(r) /\ HostAuthorizes) =>
      /\ (ClosePort(r) /\ host.platform # "win32") =>
           /\ "firewall_rule" \notin Caused(r)
           /\ Done(r) =>
                \/ /\ reply[r].status = 200
                   /\ "shutdown_spawn" \in Caused(r) /\ child[r].state # "none"
                   /\ "warning" \in DOMAIN reply[r].body
                   /\ reply[r].body.warning = "close_port is only supported on Windows"
                \/ /\ reply[r] = [status |-> 500, body |-> [error |-> "Popen raised"]]
      /\ (Done(r) /\ (~ClosePort(r) \/ host.platform = "win32")) =>
           "warning" \notin DOMAIN reply[r].body

WitnessWarningAndSpawn ==
  \E r \in Req :
    /\ ValidShutdown(r) /\ ClosePort(r) /\ host.platform = "linux"
    /\ Done(r) /\ reply[r].status = 200 /\ "warning" \in DOMAIN reply[r].body
    /\ effects[r] = <<"sudo_probe", "shutdown_spawn">>

\* The handler has left the capability check.
Authorized(r) ==
  \/ pc[r] \in {"lockdown", "spawn"}
  \/ Done(r) /\ reply[r].status \in {200, 500}
Denied(r) == Done(r) /\ reply[r].status = 403
\* C17: Windows authorizes without a probe; a root process authorizes
\* without a probe and without sudo; a non-root process is authorized
\* exactly when the passwordless-sudo probe succeeds, and the spawned command
\* goes through sudo exactly when the authorization came from the probe.
CapabilityOutcome ==
  \A r \in Req :
    (ValidShutdown(r) /\ (Authorized(r) \/ Denied(r))) =>
      /\ host.platform = "win32" =>
           Authorized(r) /\ "sudo_probe" \notin Caused(r)
      /\ (host.platform = "linux" /\ host.root) =>
           Authorized(r) /\ "sudo_probe" \notin Caused(r)
      /\ (host.platform = "linux" /\ ~host.root) =>
           /\ Authorized(r) <=> host.sudo = "passwordless"
           /\ Denied(r) <=> host.sudo # "passwordless"
           /\ "sudo_probe" \in Caused(r) <=> host.sudo # "missing"
      /\ child[r].state # "none" =>
           /\ child[r].command.sudo <=>
                (host.platform = "linux" /\ ~host.root /\ host.sudo = "passwordless")
           /\ child[r].command.sudo <=> "sudo_probe" \in Caused(r)
           /\ child[r].command.argv0 =
                (IF host.platform = "win32" THEN "shutdown" ELSE "/bin/sh")

WitnessSudoPrefix ==
  \E r \in Req :
    /\ ValidShutdown(r) /\ Done(r) /\ reply[r].status = 200
    /\ host.platform = "linux" /\ ~host.root /\ host.sudo = "passwordless"
    /\ child[r].command.sudo
    /\ child[r].command.text = "/bin/sh -c sleep 5; sudo -n /sbin/shutdown -h now"

ShutdownStep(r) ==
  /\ pc[r] = "capability" => pc'[r] \in {"capability", "lockdown", "done"}
  /\ (pc[r] = "capability" /\ pc'[r] = "lockdown") => HostAuthorizes
  /\ (pc[r] = "capability" /\ pc'[r] = "done") =>
       HostDenies /\ reply'[r].status = 403
  /\ pc[r] = "lockdown" => pc'[r] \in {"lockdown", "spawn"}
  /\ pc[r] = "spawn" => pc'[r] \in {"spawn", "done"}
  /\ (pc[r] = "spawn" /\ pc'[r] = "done") => reply'[r].status \in {200, 500}
  /\ pc[r] = "done" => (pc'[r] = "done" /\ effects'[r] = effects[r])
  /\ Count(effects'[r], "firewall_rule") > Count(effects[r], "firewall_rule") =>
       pc[r] = "lockdown" /\ Count(effects[r], "shutdown_spawn") = 0
  /\ Count(effects'[r], "shutdown_spawn") <= 1
  /\ Count(effects'[r], "shutdown_spawn") > Count(effects[r], "shutdown_spawn") =>
       pc[r] = "spawn" /\ pc'[r] = "done" /\ reply'[r].status = 200
  /\ HostDenies =>
       /\ pc'[r] \notin {"lockdown", "spawn"}
       /\ Count(effects'[r], "firewall_rule") = 0
       /\ Count(effects'[r], "shutdown_spawn") = 0
\* C18: a /shutdown request goes from the capability check to the optional
\* port lockdown only when authorized, then to the spawn, then to the
\* response; no firewall rule after the spawn, at most one spawn, and a
\* denied request reaches neither the lockdown nor the spawn.
ShutdownStateOrder ==
  [][\A r \in Req : req[r].endpoint = "/shutdown" => ShutdownStep(r)]_vars

WitnessLockdownThenSpawn ==
  \E r \in Req :
    /\ ValidShutdown(r) /\ Done(r) /\ reply[r].status = 200
    /\ host.platform = "win32"
    /\ effects[r] = <<"firewall_rule", "shutdown_spawn">>

ForgetStep(r) ==
  /\ (reply[r].status # 200 /\ reply'[r].status = 200) =>
       /\ child[r].state = "none" /\ child'[r].state = "running"
       /\ Count(effects'[r], "shutdown_spawn") = 1
  /\ pc[r] = "done" =>
       /\ pc'[r] = "done" /\ reply'[r] = reply[r] /\ effects'[r] = effects[r]
       /\ local'[r] = local[r] /\ verdict'[r] = verdict[r]
  /\ child[r].state # "none" =>
       /\ child'[r].command = child[r].command
       /\ child'[r].state \in {child[r].state, "exited"}
  /\ child'[r].state = "exited" => reply'[r] = reply[r]
\* C19: the 200 of /shutdown is produced once the process is spawned and
\* while it still runs; after the response no step of the agent touches the
\* request or the process, and the end of the process changes no response.
FireAndForget ==
  [][\A r \in Req : req[r].endpoint = "/shutdown" => ForgetStep(r)]_vars

WitnessAnsweredWhileRunning ==
  \E r \in Req :
    /\ ValidShutdown(r) /\ Done(r) /\ reply[r].status = 200
    /\ child[r].state = "running"

\* C20: the delay of the spawned command and of the response status is
\* max(0, shutdown_delay), never negative, on the Windows and on the
\* non-Windows path.
DelayClamped ==
  call.stage = "scheduled" =>
    LET d == IF call.shutdown_delay < 0 THEN 0 ELSE call.shutdown_delay
    IN  /\ d >= 0
        /\ call.command.delay = d
        /\ call.platform = "win32" =>
             call.command.text = "shutdown /s /t " \o ToString(d)
        /\ call.platform = "linux" =>
             call.command.text =
               "/bin/sh -c sleep " \o ToString(d) \o "; "
                 \o (IF call.use_sudo THEN "sudo -n " ELSE "") \o "/sbin/shutdown -h now"
        /\ call.response.status = "Shutdown initiated (delay: " \o ToString(d) \o "s)"

WitnessNegativeDelayClamped ==
  /\ call.stage = "scheduled" /\ call.shutdown_delay = 0 - 2
  /\ call.platform = "linux" /\ call.use_sudo
  /\ call.command.text = "/bin/sh -c sleep 0; sudo -n /sbin/shutdown -h now"
  /\ call.response.status = "Shutdown initiated (delay: 0s)"

(***************************************************************************)
(* Properties of wol.py (SpecWol), stated on the characters of the input.  *)
(***************************************************************************)
HexChars ==
  {"0", "1", "2", "3", "4", "5", "6", "7", "8", "9",
   "A", "B", "C", "D", "E", "F", "a", "b", "c", "d", "e", "f"}
UpperHexChars ==
  {"0", "1", "2", "3", "4", "5", "6", "7", "8", "9", "A", "B", "C", "D", "E", "F"}
Validated == call.stage \in {"validated", "normalized", "sent"}
Normalized == call.stage \in {"normalized", "sent"}
Sent == call.stage = "sent"
\* Seventeen characters: pairs of any characters with a separator, ':' or
\* '-', at every third place.
SeventeenShaped(s) ==
  /\ Len(s) = 17
  /\ \A i \in 1..17 : i % 3 = 0 => s[i] \in {":", "-"}
\* Six pairs of hex digits with the separator sep between them.
SixPairsWith(s, sep) ==
  /\ Len(s) = 17
  /\ \A i \in 1..17 : IF i % 3 = 0 THEN s[i] = sep ELSE s[i] \in HexChars
GroupCount(s) == 1 + Cardinality({i \in DOMAIN s : s[i] \in {":", "-"}})

\* C21: validate_mac is True exactly for the 17-character inputs made of six
\* pairs of hex digits separated by ':' throughout or by '-' throughout.
ValidateMacExactlyUniform17 ==
  Validated =>
    (call.valid <=> (\/ SixPairsWith(call.mac_address, ":")
                     \/ SixPairsWith(call.mac_address, "-")))

\* C22: validate_mac accepts six hex pairs separated by colons or by hyphens,
\* in either case, and rejects fewer than six groups, more than six groups,
\* no separators, and a non-hex character in a pair.
ValidateMacAcceptsAndRejects ==
  Validated =>
    /\ (SixPairsWith(call.mac_address, ":") \/ SixPairsWith(call.mac_address, "-"))
         => call.valid
    /\ GroupCount(call.mac_address) < 6 => ~call.valid
    /\ GroupCount(call.mac_address) > 6 => ~call.valid
    /\ (\A i \in DOMAIN call.mac_address : call.mac_address[i] \notin {":", "-"})
         => ~call.valid
    /\ (/\ SeventeenShaped(call.mac_address)
        /\ \E i \in 1..17 : i % 3 # 0 /\ call.mac_address[i] \notin HexChars)
         => ~call.valid

WitnessLowerHyphenAccepted ==
  /\ Validated /\ call.valid
  /\ call.mac_address = <<"a", "a", "-", "b", "b", "-", "c", "c", "-", "d", "d", "-",
                          "e", "e", "-", "f", "f">>

\* The original statement of C23: whatever the input, the result of
\* normalize_mac is twelve upper-case hex digits.
NormalizeMacAlways12Hex ==
  Normalized =>
    /\ Len(call.normalized) = 12
    /\ \A i \in DOMAIN call.normalized : call.normalized[i] \in UpperHexChars

ToUpper ==
  [c \in {"a", "b", "c", "d", "e", "f", "g", "h", "i", "j", "k", "l"} |->
     CASE c = "a" -> "A" [] c = "b" -> "B" [] c = "c" -> "C" [] c = "d" -> "D"
       [] c = "e" -> "E" [] c = "f" -> "F" [] c = "g" -> "G" [] c = "h" -> "H"
       [] c = "i" -> "I" [] c = "j" -> "J" [] c = "k" -> "K" [] c = "l" -> "L"]
\* Every way of writing the same twelve characters: upper or lower case,
\* any separators.
Spellings ==
  {[of |-> d, text |-> Written(PairsOf(IF lower THEN StrLower(d) ELSE d), seps)] :
     d \in Digits12, lower \in BOOLEAN, seps \in SeparatorChoices}
\* The input is six pairs of hex digits, with ':' or '-' or nothing after
\* each of the first five.
SixHexPairs(s) ==
  LET digits == SelectSeq(s, LAMBDA c : c \notin {":", "-"})
  IN  /\ Len(digits) = 12
      /\ \A i \in 1..12 : digits[i] \in HexChars
      /\ \E w \in Spellings : w.text = s
\* C23 (amended): normalize_mac removes every ':' and '-' and upper-cases the
\* rest; for an input written as six hex pairs the result is twelve
\* upper-case hex digits, the same for every separator style and letter case.
NormalizeMacStripsAndUppercases ==
  Normalized =>
    LET kept == SelectSeq(call.mac_address, LAMBDA c : c \notin {":", "-"})
    IN  /\ Len(call.normalized) = Len(kept)
        /\ \A i \in DOMAIN kept :
             call.normalized[i] =
               (IF kept[i] \in DOMAIN ToUpper THEN ToUpper[kept[i]] ELSE kept[i])
        /\ SixHexPairs(call.mac_address) =>
             /\ Len(call.normalized) = 12
             /\ \A i \in 1..12 : call.normalized[i] \in UpperHexChars
        /\ \A w \in Spellings :
             w.text = call.mac_address =>
               \A v \in Spellings :
                 v.of = w.of => normalize_mac(v.text) = call.normalized

WitnessLowerHyphenNormalized ==
  /\ Normalized
  /\ call.mac_address = <<"a", "a", "-", "b", "b", "-", "c", "c", "-", "d", "d", "-",
                          "e", "e", "-", "f", "f">>
  /\ call.normalized = <<"A", "A", "B", "B", "C", "C", "D", "D", "E", "E", "F", "F">>

\* C24: every address send_wol_packet accepts leaves as one datagram of 102
\* bytes, six bytes 0xFF and then six octets sixteen times, to (broadcast,
\* port).
MagicPacketLayout ==
  (Sent /\ call.outcome.raised = "none") =>
    /\ Len(call.outcome.sent) = 1
    /\ LET datagram == call.outcome.sent[1]
       IN  /\ Len(datagram.data) = 102
           /\ \A i \in 1..6 : datagram.data[i] = 255
           /\ \A i \in 13..102 : datagram.data[i] = datagram.data[i - 6]
           /\ datagram.address = <<call.broadcast, call.port>>

\* Every run of characters between whitespace is pairs of hex digits.
HexDecodable(s) ==
  \A i \in DOMAIN s :
    s[i] \notin {" ", "\n"} =>
      /\ s[i] \in HexChars
      /\ LET first == CHOOSE j \in 1..i :
                        /\ \A k \in j..i : s[k] \notin {" ", "\n"}
                        /\ j = 1 \/ s[j - 1] \in {" ", "\n"}
             last == CHOOSE j \in i..Len(s) :
                       /\ \A k \in i..j : s[k] \notin {" ", "\n"}
                       /\ j = Len(s) \/ s[j + 1] \in {" ", "\n"}
         IN  (last - first + 1) % 2 = 0
\* C25: when the normalized address is not twelve characters long or does
\* not decode as hex, send_wol_packet raises ValueError, opens no socket and
\* sends no datagram.
InvalidMacRaisesBeforeSend ==
  Sent =>
    LET mac == call.normalized
    IN  (Len(mac) # 12 \/ ~HexDecodable(mac)) =>
          /\ call.outcome.raised = "ValueError"
          /\ call.outcome.sockets = 0
          /\ call.outcome.sent = <<>>

\* "AA:BB:CC", too short.
WitnessShortMacRaises ==
  /\ Sent
  /\ call.mac_address = <<"A", "A", ":", "B", "B", ":", "C", "C">>
  /\ call.outcome.raised = "ValueError" /\ call.outcome.sockets = 0
  /\ call.outcome.sent = <<>>

(***************************************************************************)
(* Properties of the handlers on any body (SpecRequest), stated on the     *)
(* request as it arrived.                                                  *)
(***************************************************************************)
\* What the body is to "request.get_json() or {}": none, no JSON, a number
\* or true, a string, an array, or an object (null, false, 0, "", [] and {}
\* all count as the empty object).
Shape(r) ==
  LET body == req[r].body
  IN  IF body.kind = "empty" THEN "empty"
      ELSE IF body.kind = "malformed" THEN "unparsable"
      ELSE IF body.value.kind = "int" /\ body.value.val # 0 THEN "scalar"
      ELSE IF body.value.kind = "bool" /\ body.value.val THEN "scalar"
      ELSE IF body.value.kind = "str" /\ body.value.val # "" THEN "text"
      ELSE IF body.value.kind = "list" /\ Len(body.value.val) > 0 THEN "array"
      ELSE "object"
Object(r) ==
  IF req[r].body.kind = "json" /\ req[r].body.value.kind = "dict"
    THEN req[r].body.value.val
  ELSE EmptyDict
HasPayloadKey(r) ==
  \/ Shape(r) = "object" /\ "payload" \in DOMAIN Object(r)
  \/ Shape(r) = "text" /\ req[r].body.value.val = "payload"
  \/ Shape(r) = "array"
       /\ \E i \in DOMAIN req[r].body.value.val :
            req[r].body.value.val[i].val = "payload"
Answered(r, endpoint) == req[r].endpoint = endpoint /\ Done(r)
Failed403(r) ==
  /\ verdict[r].called /\ ~verdict[r].valid
  /\ reply[r] = [status |-> 403, body |-> [error |-> verdict[r].error]]

\* The original statement of C26: /wol answers 401 whenever the body carries
\* no payload, 403 with the reason when verify_signed_payload fails, 500 only
\* when sending the packet fails, and 200 otherwise.
WolStatusMapping ==
  \A r \in Req :
    Answered(r, "/wol") =>
      /\ reply[r].status \in {200, 401, 403, 500}
      /\ ~HasPayloadKey(r) => reply[r].status = 401
      /\ (verdict[r].called /\ ~verdict[r].valid) => Failed403(r)
      /\ reply[r].status = 500 =>
           (verdict[r].valid /\ reply[r].body = [error |-> "send_wol_packet raised"])
      /\ (verdict[r].valid /\ reply[r].status # 500) =>
           reply[r] = [status |-> 200,
                       body |-> [status |-> "WOL packet sent",
                                 mac |-> MacAddress]]

\* C26 (amended): /wol answers 401 when the body is a JSON object, array or
\* string without "payload"; 403 with the reason exactly when
\* verify_signed_payload fails; 500 with an error exactly when something
\* raises: the body is no JSON, is a number or true, or the sending fails;
\* 401 or 500 (as get_json returns None or raises) when the request has no
\* JSON body; 200 with {status, mac} otherwise; and nothing else.
WolStatusMappingAnyBody ==
  \A r \in Req :
    Answered(r, "/wol") =>
      /\ reply[r].status \in {200, 401, 403, 500}
      /\ Shape(r) = "empty" => reply[r].status \in {401, 500}
      /\ Shape(r) # "empty" =>
           (reply[r].status = 401 <=>
              (Shape(r) \in {"object", "text", "array"} /\ ~HasPayloadKey(r)))
      /\ reply[r].status = 401 => (~verdict[r].called /\ effects[r] = <<>>)
      /\ reply[r].status = 403 <=> (verdict[r].called /\ ~verdict[r].valid)
      /\ reply[r].status = 403 => Failed403(r)
      /\ verdict[r].called <=> HasPayloadKey(r)
      /\ Shape(r) # "empty" =>
           (reply[r].status = 500 <=>
              \/ Shape(r) \in {"unparsable", "scalar"}
              \/ verdict[r].valid /\ effects[r] = <<>>)
      /\ reply[r].status = 500 => DOMAIN reply[r].body = {"error"}
      /\ reply[r].status = 200 <=> (verdict[r].valid /\ effects[r] = <<"wol_packet">>)
      /\ reply[r].status = 200 =>
           reply[r].body = [status |-> "WOL packet sent", mac |-> MacAddress]

\* The body is the JSON number 5: the membership test raises.
WitnessNumberBodyIs500 ==
  \E r \in Req :
    /\ Answered(r, "/wol") /\ req[r].body = [kind |-> "json", value |-> JInt(5)]
    /\ reply[r] = [status |-> 500,
                   body |-> [error |-> "argument of type 'int' is not iterable"]]
    /\ ~verdict[r].called /\ effects[r] = <<>>

Field(r, key) ==
  IF /\ Shape(r) = "object" /\ "payload" \in DOMAIN Object(r)
     /\ Object(r)["payload"].kind = "dict"
     /\ key \in DOMAIN Object(r)["payload"].val
    THEN Object(r)["payload"].val[key]
  ELSE Absent
\* The body has a "payload" for verify_signed_payload to look at, and it is
\* not what create_signed_payload makes: data that is no dict, a payload
\* that is no dict, a field missing, a timestamp that is no integer, a
\* nonce or a signature that is no string.
Malformed(r) ==
  /\ HasPayloadKey(r)
  /\ \/ Shape(r) # "object"
     \/ Object(r)["payload"].kind # "dict"
     \/ \E key \in {"action", "timestamp", "nonce"} : Field(r, key) = Absent
     \/ Field(r, "timestamp").kind # "int"
     \/ Field(r, "nonce").kind # "str"
     \/ "signature" \notin DOMAIN Object(r)
     \/ Object(r)["signature"].kind \notin {"hex", "str"}
\* C28: on malformed data verify_signed_payload returns (False, reason) and
\* the handler answers 403 with that reason; every response of either
\* handler is a JSON body with a status, an error body unless 200; a request
\* that failed caused no packet and no spawn, and no effect happens twice.
MalformedNeverEscapes ==
  \A r \in Req :
    Done(r) =>
      /\ reply[r].status \in {200, 400, 401, 403, 500}
      /\ "html" \notin DOMAIN reply[r].body
      /\ reply[r].status # 200 => DOMAIN reply[r].body = {"error"}
      /\ (Malformed(r) /\ (req[r].endpoint = "/wol" \/ Shape(r) = "object")) =>
           Failed403(r)
      /\ reply[r].status # 200 =>
           Caused(r) \cap {"wol_packet", "shutdown_spawn"} = {}
      /\ \A e \in Caused(r) : Count(effects[r], e) = 1

\* A timestamp that is a string: the subtraction raises TypeError inside
\* verify_signed_payload, which returns its text as the reason.
WitnessTimestampTypeErrorIs403 ==
  \E r \in Req :
    /\ Answered(r, "/shutdown") /\ Malformed(r)
    /\ Field(r, "timestamp") = JStr("soon")
    /\ verdict[r].called /\ ~verdict[r].valid
    /\ reply[r] = [status |-> 403,
                   body |-> [error |-> "unsupported operand type(s) for -: 'int' and 'str'"]]

(***************************************************************************)
(* The three ways a signature fails (SpecVerify).                          *)
(***************************************************************************)
ReachesSignatureStep ==
  /\ Returned /\ WellTyped
  /\ PresencePasses /\ ActionPasses /\ ExpiryPasses /\ SkewPasses /\ ReplayPasses
SignatureDecodes ==
  /\ ArgSignature.kind = "hex"
  /\ ArgSignature.val.spelling \in {"lower", "upper", "spaced"}
MalformedSignature == ~SignatureDecodes
OtherKey == SignatureDecodes /\ ArgSignature.val.bytes.signer # call.public_key.pair
AlteredPayload ==
  /\ SignatureDecodes
  /\ ArgSignature.val.bytes.signed # JsonDumps(ArgPayload.val)
\* C29: a call that reaches the signature step with a signature that is
\* malformed hex, or made with another key, or made over another payload,
\* gets False from verify_signature and (False, "Invalid signature") from
\* verify_signed_payload, with the nonce recorded, whichever of the three
\* it is.
SignatureFailuresIndistinguishable ==
  (ReachesSignatureStep /\ (MalformedSignature \/ OtherKey \/ AlteredPayload)) =>
    /\ verify_signature(JsonDumps(ArgPayload.val), ArgSignature, call.public_key) = FALSE
    /\ call.result.valid = FALSE
    /\ call.result.error = "Invalid signature"
    /\ call.result.used_nonces =
         (IF call.used_nonces.kind = "set"
            THEN [kind |-> "set", val |-> call.used_nonces.val \cup {ArgNonce}]
          ELSE call.used_nonces)

\* The signature is not hex at all, on a payload the controller signed.
WitnessNotHexIsInvalidSignature ==
  /\ ReachesSignatureStep /\ call.signer = "controller"
  /\ ArgPayload = call.original.payload
  /\ ArgSignature = JStr("invalid_hex")
  /\ call.result.valid = FALSE /\ call.result.error = "Invalid signature"

(***************************************************************************)
(* The nonce cache over the life of the agent (Spec).                      *)
(***************************************************************************)
\* C30: no step of any /wol or /shutdown handler removes a nonce from
\* used_nonces: the set after a step contains the set before it.
NonceCacheOnlyGrows == [][used_nonces \subseteq used_nonces']_vars

\* Two requests have ended, one accepted and one refused for its signature;
\* both nonces are in the set.
WitnessBothNoncesKept ==
  \E r1, r2 \in Req :
    /\ Signed(r1) /\ Signed(r2) /\ Nonce(r1) # Nonce(r2)
    /\ Done(r1) /\ verdict[r1].valid
    /\ Done(r2) /\ verdict[r2].error = "Invalid signature"
    /\ used_nonces = {Nonce(r1), Nonce(r2)}

(***************************************************************************)
(* Properties of keygen (SpecKeys).                                        *)
(***************************************************************************)
KeygenRan == call.stage = "keys" /\ call.runs > 0

\* C31: keygen without --force leaves every key file that exists unchanged;
\* a key file that exists is overwritten only when --force is given.
KeygenOverwritesOnlyWithForce ==
  KeygenRan =>
    /\ ~call.force =>
         /\ call.before.private_pem # NoFile => call.private_pem = call.before.private_pem
         /\ call.before.public_pem # NoFile => call.public_pem = call.before.public_pem
    /\ \/ call.before.private_pem # NoFile /\ call.private_pem # call.before.private_pem
       \/ call.before.public_pem # NoFile /\ call.public_pem # call.before.public_pem
       => call.force


(***************************************************************************)
(* The nonce cache across one call of verify_signed_payload (SpecVerify).  *)
(***************************************************************************)
CacheChanged == call.result.used_nonces # call.used_nonces

\* C32: a call that fails at the presence, action, expiry, future-skew or
\* replay check returns with used_nonces as it was; the cache changes only
\* when the call reaches the replay step with a nonce not yet in it.
EarlyRejectionLeavesCache ==
  Returned =>
    /\ (WellTyped /\ FailingChecks \cap (1..5) # {}) => ~CacheChanged
    /\ (\E i \in 1..5 : call.result.error = ReasonOf(i)) => ~CacheChanged
    /\ CacheChanged =>
         /\ WellTyped
         /\ PresencePasses /\ ActionPasses /\ ExpiryPasses /\ SkewPasses
         /\ call.used_nonces.kind = "set"
         /\ ArgNonce \notin call.used_nonces.val
         /\ call.result.used_nonces = PySet(call.used_nonces.val \cup {ArgNonce})

\* An expired payload with a nonce the cache has not seen: the cache is left
\* as it was.
WitnessExpiredLeavesCache ==
  /\ Returned /\ WellTyped
  /\ PresencePasses /\ ActionPasses /\ ~ExpiryPasses
  /\ call.used_nonces.kind = "set" /\ ArgNonce \notin call.used_nonces.val
  /\ call.result.error = ReasonOf(3)
  /\ ~CacheChanged

(***************************************************************************)
(* The PortLockdown step (SpecRequest).                                    *)
(***************************************************************************)
ClosePortRequested(r) ==
  /\ req[r].body.kind = "json"
  /\ "close_port" \in DOMAIN Object(r)
  /\ Object(r)["close_port"] = JBool(TRUE)
PastLockdown(r) == pc[r] \in {"spawn", "done"}

\* C33: the firewall rule is added if and only if the request was verified
\* valid for shutdown, close_port was requested and the platform is Windows;
\* with close_port absent or false the step does nothing, on every platform:
\* no rule and no warning.
FirewallRuleIffRequestedOnWindows ==
  \A r \in Req :
    /\ "firewall_rule" \in Caused(r) <=>
         /\ ValidShutdown(r) /\ PastLockdown(r)
         /\ ClosePortRequested(r)
         /\ host.platform = "win32"
    /\ Count(effects[r], "firewall_rule") <= 1
    /\ ~ClosePortRequested(r) =>
         /\ "firewall_rule" \notin Caused(r)
         /\ local[r].warning = PyNone
         /\ Done(r) => "warning" \notin DOMAIN reply[r].body

\* A valid shutdown with close_port true on Windows: the rule, then the spawn.
WitnessFirewallRuleOnWindows ==
  \E r \in Req :
    /\ ValidShutdown(r) /\ ClosePortRequested(r) /\ host.platform = "win32"
    /\ Done(r) /\ reply[r].status = 200
    /\ effects[r] = <<"firewall_rule", "shutdown_spawn">>

(***************************************************************************)
(* The address woken (SpecRequest).                                        *)
(***************************************************************************)
ConfiguredPacket ==
  [data |-> MagicPacket(<<170, 187, 204, 221, 238, 255>>),
   address |-> <<"255.255.255.255", 9>>]
NamesOtherMac(r) ==
  /\ req[r].body.kind = "json"
  /\ "mac" \in DOMAIN Object(r)
  /\ Object(r)["mac"].val # MacAddress

\* C34: whatever the body of a verified /wol request contains, send_wol_packet
\* is called with the mac_address the agent was configured with, the packet
\* sent is the magic packet of that address, and the "mac" of the 200
\* response is that address.
WokenMacIsConfigured ==
  /\ call.stage = "sent" => call.mac_address = MacAddress
  /\ \A r \in Req :
       (Answered(r, "/wol") /\ reply[r].status = 200) =>
         /\ verdict[r].called /\ verdict[r].valid
         /\ call.stage = "sent"
         /\ call.result.sent = <<ConfiguredPacket>>
         /\ reply[r].body = [status |-> "WOL packet sent", mac |-> MacAddress]

\* A verified /wol request whose body names another address.
WitnessOtherMacInBodyIgnored ==
  \E r \in Req :
    /\ Answered(r, "/wol") /\ reply[r].status = 200
    /\ NamesOtherMac(r)
    /\ call.result.sent = <<ConfiguredPacket>>

(***************************************************************************)
(* The same payload presented again (SpecReplay).                          *)
(***************************************************************************)
\* The first request was verified valid and then ended without its effect:
\* 403 from the capability check, or 500 because the send or the spawn raised.
VerifiedThenFailed(r) ==
  /\ Done(r) /\ Signed(r)
  /\ verdict[r].called /\ verdict[r].valid
  /\ reply[r].status \in {403, 500}
PresentedAgain(r) == pc[r] # "idle" /\ req[r] = req[1]
\* The clock stands still from the second arrival on.
StillFresh(r) == now - req[r].body.timestamp <= AGENT_MAX_AGE
AnsweredExpired(r) ==
  /\ verdict[r].called /\ ~verdict[r].valid
  /\ reply[r] = [status |-> 403, body |-> [error |-> "Payload expired (max age: 60s)"]]

\* The original statement of C35: the payload of a request that was verified
\* and then failed, presented again, is answered 403 "Nonce already used
\* (replay attack)" and reaches neither the capability check nor the send.
ConsumedNonceAnsweredReplay ==
  (VerifiedThenFailed(1) /\ PresentedAgain(2)) =>
    /\ ~PassedReplayStep(2) /\ effects[2] = <<>>
    /\ Done(2) => AnsweredReplay(2)

\* C35 (amended): presented again to the same agent, the payload is answered
\* 403 and reaches neither the capability check nor the send; the reason is
\* "Nonce already used (replay attack)" while the payload is inside its
\* freshness window and "Payload expired" once it has left it.
ConsumedNonceNeverActsAgain ==
  (VerifiedThenFailed(1) /\ PresentedAgain(2)) =>
    /\ ~PassedReplayStep(2) /\ effects[2] = <<>>
    /\ used_nonces = {Nonce(1)}
    /\ Done(2) =>
         /\ StillFresh(2) => AnsweredReplay(2)
         /\ ~StillFresh(2) => AnsweredExpired(2)

\* A shutdown refused for want of privilege, and its payload refused as a
\* replay half a minute later.
WitnessReplayAfterPrivilegeDenial ==
  /\ VerifiedThenFailed(1) /\ req[1].endpoint = "/shutdown" /\ reply[1].status = 403
  /\ effects[1] = <<"sudo_probe">>
  /\ PresentedAgain(2) /\ Done(2) /\ now = 30
  /\ AnsweredReplay(2)

(***************************************************************************)
(* One nonce set for both endpoints (Spec).                                *)
(***************************************************************************)
RightEndpoint(r) ==
  \/ req[r].endpoint = "/wol" /\ req[r].body.action = "wol"
  \/ req[r].endpoint = "/shutdown" /\ req[r].body.action = "shutdown"
\* used_nonces.add(nonce) was executed by the handler of r.
Recorded(r) ==
  \/ pc[r] \in {"send", "capability", "lockdown", "spawn"}
  \/ Done(r) /\ verdict[r].called /\ verdict[r].error \in {"None", "Invalid signature"}
AnsweredMismatch(r) ==
  LET expected == IF req[r].endpoint = "/wol" THEN "wol" ELSE "shutdown"
  IN  /\ Done(r) /\ verdict[r].called /\ ~verdict[r].valid
      /\ reply[r] = [status |-> 403,
                     body |-> [error |-> "Invalid action: expected " \o expected]]
      /\ effects[r] = <<>>

RepeatTimestamp == call.data.payload.val.timestamp.val
InsideWindow ==
  /\ call.current_time - RepeatTimestamp <= 60
  /\ RepeatTimestamp <= call.current_time + 5
RepeatActionMatches == call.data.payload.val.action = JStr(call.expected_action)

\* C37: called with used_nonces left at None, verify_signed_payload skips the
\* replay step: it never answers "Nonce already used", it keeps no set, and a
\* validly signed payload for the expected action is accepted on every call
\* made inside its freshness window.
NoCacheNoReplayProtection ==
  (call.stage = "returned" /\ call.given = PyNone) =>
    /\ call.used_nonces = PyNone
    /\ call.result.error # "Nonce already used (replay attack)"
    /\ (RepeatActionMatches /\ InsideWindow) =>
         call.result.valid /\ call.result.error = "None"

\* Accepted before, and accepted again in the last second of the window.
WitnessAcceptedAgainWithoutCache ==
  /\ call.stage = "returned" /\ call.given = PyNone
  /\ TRUE \in call.earlier
  /\ call.current_time = RepeatTimestamp + 60
  /\ call.result.valid

(***************************************************************************)
(* The requests of the nanowol.py commands (SpecRequest).                  *)
(***************************************************************************)
\* nanowol.py shutdown: json={"signature": ..., "close_port": ...}
LegacyShutdown(r) ==
  /\ Answered(r, "/shutdown") /\ req[r].body.kind = "json"
  /\ DOMAIN Object(r) = {"signature", "close_port"}
  /\ Object(r)["signature"] =
       sign_message(<<Tok("raw", "shutdown")>>, PrivateKey("controller"))
\* nanowol.py wake: req.post(f"{target}/wol", timeout=10)
LegacyWake(r) == Answered(r, "/wol") /\ req[r].body.kind = "empty"

\* C38: the /shutdown request of the shutdown command (a signature over
\* "shutdown" and close_port, no payload) is answered 400 and spawns nothing,
\* and the /wol request of the wake command (no body) is answered 401 and
\* sends no packet.
LegacyRequestsRefused ==
  \A r \in Req :
    /\ LegacyShutdown(r) =>
         /\ reply[r].status = 400
         /\ ~verdict[r].called /\ effects[r] = <<>> /\ child[r] = NoChild
    /\ LegacyWake(r) =>
         /\ reply[r].status = 401
         /\ ~verdict[r].called /\ effects[r] = <<>>

\* The part of C38 about /shutdown.
LegacyShutdownRefused ==
  \A r \in Req :
    LegacyShutdown(r) =>
      /\ reply[r].status = 400
      /\ ~verdict[r].called /\ effects[r] = <<>> /\ child[r] = NoChild
\* The wake command against an agent whose get_json raises.
LegacyWakeIs500 ==
  \E r \in Req : LegacyWake(r) /\ reply[r].status = 500 /\ effects[r] = <<>>
LegacyWakeIs401 ==
  \E r \in Req : LegacyWake(r) /\ reply[r].status = 401 /\ effects[r] = <<>>
LegacyShutdownIs400 ==
  \E r \in Req : LegacyShutdown(r) /\ reply[r].status = 400

(***************************************************************************)
(* validate_mac against send_wol_packet (SpecWol).                         *)
(***************************************************************************)
\* The six octets a string names: its hex pairs at 1-2, 4-5, ..., 16-17.
NamedOctets(s) ==
  [g \in 1..6 |-> 16 * HexValue(s[3 * g - 2]) + HexValue(s[3 * g - 1])]
ValidatedAndSent == call.stage = "sent" /\ call.valid

\* C39: every string validate_mac returns True for is accepted by
\* send_wol_packet: no ValueError, and the packet sent is built from the six
\* octets the string names.
ValidatedMacIsAccepted ==
  ValidatedAndSent =>
    /\ call.outcome.raised # "ValueError"
    /\ call.network_up =>
         /\ call.outcome.raised = "none"
         /\ call.outcome.sent =
              <<[data |-> MagicPacket(NamedOctets(call.mac_address)),
                 address |-> <<call.broadcast, call.port>>]>>

\* The same for the validated strings of 17 characters.
ValidatedMacOf17IsAccepted ==
  (ValidatedAndSent /\ Len(call.mac_address) = 17) =>
    /\ call.outcome.raised # "ValueError"
    /\ call.network_up =>
         /\ call.outcome.raised = "none"
         /\ call.outcome.sent =
              <<[data |-> MagicPacket(NamedOctets(call.mac_address)),
                 address |-> <<call.broadcast, call.port>>]>>
\* A validated string ends in a newline and is refused.
ValidatedNewlineRefused ==
  /\ ValidatedAndSent /\ Len(call.mac_address) = 18 /\ call.mac_address[18] = "\n"
  /\ call.outcome.raised = "ValueError"

(***************************************************************************)
(* Every request is answered (SpecRequestFair).                            *)
(***************************************************************************)
Arrived(r, endpoint) == req[r].endpoint = endpoint /\ pc[r] # "idle"
PopenRaised(r) ==
  Done(r) /\ reply[r] = [status |-> 500, body |-> ErrorBody("Popen raised")]
\* Scheduled: the shutdown command was spawned, once, and the answer is 200.
Scheduled(r) ==
  /\ Done(r) /\ reply[r].status = 200
  /\ Count(effects[r], "shutdown_spawn") = 1 /\ child[r] # NoChild

\* C40: every /shutdown request is eventually answered, with one of 200,
\* 400, 403 and 500, and the answer once given stays; a request that
\* verify_signed_payload accepted (validly signed, fresh, not replayed) on a
\* platform that authorizes shutdown is eventually Scheduled and answered
\* 200, when Popen returns.
EveryShutdownAnswered ==
  /\ \A r \in Req :
       Arrived(r, "/shutdown") ~> (Done(r) /\ reply[r].status \in {200, 400, 403, 500})
  /\ [][\A r \in Req : Done(r) => (Done(r)' /\ reply'[r] = reply[r])]_vars
  /\ \A r \in Req :
       ValidShutdown(r) ~>
         (Done(r) /\ (HostAuthorizes => (Scheduled(r) \/ PopenRaised(r))))

\* A valid request on Linux with passwordless sudo, scheduled and answered.
WitnessScheduledThroughSudo ==
  \E r \in Req :
    /\ ValidShutdown(r) /\ host.platform = "linux" /\ host.sudo = "passwordless"
    /\ ~host.root /\ Scheduled(r) /\ child[r].command.sudo

====
